---- MODULE Spec2Model ----
(***************************************************************************)
(* Verification model of HuskyRye/cs110l.                                  *)
(*                                                                         *)
(* proj-1/deet: the debugger session (debugger.rs) driving one traced      *)
(* child through ptrace (inferior.rs).  The traced target and the kernel   *)
(* are the environment: a small byte-coded program in process memory and   *)
(* the wait/ptrace outcomes the kernel can report.                         *)
(* week3/linked_list: LinkedList with push_front, pop_front, clone, eq.    *)
(* week1/part-2-warmup: dedup.                                             *)
(* proj-2/balancebeam: the rate limiter and the connection handlers, the   *)
(* choice of an upstream and the active health check.                      *)
(* week6/parallel_map: parallel_map and its worker threads.                *)
(*                                                                         *)
(* Each program has its own variables and its own specification; the       *)
(* variables of the other programs stay at their idle values.              *)
(***************************************************************************)
EXTENDS Integers, Sequences, FiniteSets, TLC

(***************************************************************************)
(* Machine words.  A u64 is kept as its 8 bytes, least significant first,  *)
(* so that 64-bit shifts and masks are exact.                              *)
(***************************************************************************)

\* size_of::<usize>() on the x86-64 host
WordSize == 8

\* the trap opcode written by cont
TrapByte == 204

ByteMax == 255

ByteIdx == 1..WordSize

\* the address itself
align_addr_not(addr) == addr

\* bit k of a byte
Bit(a, k) == (a \div (2 ^ k)) % 2

\* u8 & u8
ByteAnd(a, b) ==
    LET And(k) == Bit(a, k) * Bit(b, k) * (2 ^ k)
    IN  And(0) + And(1) + And(2) + And(3) + And(4) + And(5) + And(6) + And(7)

\* u8 | u8
ByteOr(a, b) == a + b - ByteAnd(a, b)

\* u64 & u64
WordAnd(x, y) == [i \in ByteIdx |-> ByteAnd(x[i], y[i])]

\* u64 | u64
WordOr(x, y) == [i \in ByteIdx |-> ByteOr(x[i], y[i])]

\* !u64
WordNot(x) == [i \in ByteIdx |-> ByteMax - x[i]]

\* u64 >> bits, bits a multiple of 8 below 64
WordShr(x, bits) ==
    [i \in ByteIdx |-> IF i + (bits \div 8) <= WordSize
                       THEN x[i + (bits \div 8)] ELSE 0]

\* u64 << bits, bits a multiple of 8 below 64
WordShl(x, bits) ==
    [i \in ByteIdx |-> IF i - (bits \div 8) >= 1
                       THEN x[i - (bits \div 8)] ELSE 0]

\* a small unsigned value widened to u64 (val as u64, the literal 0xff)
ToWord(v) == [i \in ByteIdx |-> IF i = 1 THEN v % 256
                                ELSE IF i = 2 THEN (v \div 256) % 256
                                ELSE 0]

\* u64 as u8
LowByte(x) == x[1]

\* the byte of a word that sits at byte offset off (little endian)
ByteAt(x, off) == x[off + 1]

(***************************************************************************)
(* Inferior::write_byte and align_addr_to_word.  Process memory is a       *)
(* function from the mapped word-aligned addresses to words; ptrace::read  *)
(* and ptrace::write fail on an address whose word is not mapped.          *)
(***************************************************************************)

align_addr_to_word(addr) == addr - (addr % WordSize)

Mapped(mem, aligned) == aligned \in DOMAIN mem

\* the word itself, its byte at byte_offset not cleared
write_byte_unmasked(word, byte_offset) == word

write_byte_masked(word, byte_offset) ==
    WordAnd(word, WordNot(WordShl(ToWord(ByteMax), 8 * byte_offset)))

\* ptrace::read / ptrace::write reach a tracee only while it is stopped, and
\* only a mapped word
ptrace_peek_ok(p, aligned) == p.st = "stopped" /\ Mapped(p.mem, aligned)

write_byte(p, addr, val) ==
    LET aligned_addr == align_addr_to_word(addr)
        byte_offset  == addr - aligned_addr
    IN  IF ~ptrace_peek_ok(p, aligned_addr)
        THEN [ok |-> FALSE, p |-> p, byte |-> 0]
        ELSE LET word         == p.mem[aligned_addr]
                 orig_byte    == WordAnd(WordShr(word, 8 * byte_offset),
                                         ToWord(ByteMax))
                 masked_word  == write_byte_masked(word, byte_offset)
                 updated_word == WordOr(masked_word,
                                        WordShl(ToWord(val), 8 * byte_offset))
             IN  [ok   |-> TRUE,
                  p    |-> [p EXCEPT !.mem[aligned_addr] = updated_word],
                  byte |-> LowByte(orig_byte)]

(***************************************************************************)
(* The traced target (environment).  Its text is two words of one-byte     *)
(* opcodes (a call carries a one-byte target operand):                     *)
(*     main 16: call foo   18: exit(acc)                                   *)
(*     foo  19: enter      20: call bar    22: call bar    24: leave-ret   *)
(*     bar  25: enter      26: inc acc     27: leave-ret                   *)
(* "enter" is push %rbp; mov %rsp,%rbp and "leave-ret" is leave; ret, so   *)
(* the stack holds a frame-pointer chain.  The stack is six words below    *)
(* main's frame base; the word above it holds main's return address into   *)
(* the C runtime, for which there are no debug symbols.                    *)
(***************************************************************************)

OpCall  == 232
OpExit  == 244
OpEnter == 85
OpRet   == 195
OpInc   == 64

TextBase  == 16
MainAddr  == 16
FooAddr   == 19
BarAddr   == 25
TextEnd   == 27
StackLow  == 32
MainFrame == 64
LibcRet   == 128

TextWords ==
    (TextBase :> <<OpCall, FooAddr, OpExit, OpEnter, OpCall, BarAddr, OpCall, BarAddr>>)
    @@ ((TextBase + WordSize) :> <<OpRet, OpEnter, OpInc, OpRet, 0, 0, 0, 0>>)

StackWords ==
    [a \in {StackLow + WordSize * k : k \in 0..5} |->
        IF a = MainFrame + WordSize THEN ToWord(LibcRet) ELSE ToWord(0)]

\* the image a fresh exec maps
InitialMemory == TextWords @@ StackWords

\* an address far outside every mapped segment
HighAddr == 65536

\* a word read as usize; values that do not fit the model's addresses are
\* all unmapped
WordToAddr(w) ==
    IF \A i \in 3..WordSize : w[i] = 0 THEN w[1] + 256 * w[2] ELSE HighAddr

NoEvent == [kind |-> "none", sig |-> "none", code |-> 0]

\* the child right after a successful exec under PTRACE_TRACEME: stopped by
\* SIGTRAP at its entry, the stop not yet collected by waitpid
FreshProcess ==
    [st      |-> "stopped",
     pending |-> TRUE,
     wsig    |-> "SIGTRAP",
     zstatus |-> NoEvent,
     rip     |-> MainAddr,
     rbp     |-> MainFrame,
     rsp     |-> MainFrame,
     acc     |-> 0,
     mem     |-> InitialMemory,
     execs   |-> [a \in TextBase..TextEnd |-> 0],
     calls   |-> << >>,
     depth   |-> 0]

NoProcess == [FreshProcess EXCEPT !.st = "gone", !.pending = FALSE]

FetchByte(p, addr) == ByteAt(p.mem[align_addr_to_word(addr)], addr % WordSize)

CanFetch(p, addr) == Mapped(p.mem, align_addr_to_word(addr))

\* Ghost fields of a process, read by no operation: execs counts the
\* instructions that ran, per text address; calls holds the return addresses
\* of the calls in progress, innermost first; depth the frames set up by
\* "enter" and not yet left.

Counted(p, addr) ==
    IF addr \in DOMAIN p.execs
    THEN [p EXCEPT !.execs[addr] = @ + 1]
    ELSE p

\* One instruction of the target at p.rip.  ev is what the CPU raised:
\* "ok", "trap" (int3 executed, rip past it), "exit", "segv", "ill".
ExecInsn(p) ==
    IF ~CanFetch(p, p.rip) THEN [p |-> p, ev |-> "segv"]
    ELSE LET op == FetchByte(p, p.rip) IN
    CASE op = TrapByte ->
           [p |-> [p EXCEPT !.rip = @ + 1], ev |-> "trap"]
      [] op = OpInc ->
           [p |-> [Counted(p, p.rip) EXCEPT !.rip = @ + 1, !.acc = @ + 1],
            ev |-> "ok"]
      [] op = OpExit ->
           [p |-> Counted(p, p.rip), ev |-> "exit"]
      [] op = OpCall ->
           IF ~CanFetch(p, p.rip + 1) \/ ~Mapped(p.mem, p.rsp - WordSize)
              \/ (p.rsp % WordSize) # 0
           THEN [p |-> p, ev |-> "segv"]
           ELSE [p |-> [Counted(p, p.rip) EXCEPT
                          !.rip = FetchByte(p, p.rip + 1),
                          !.rsp = @ - WordSize,
                          !.mem[p.rsp - WordSize] = ToWord(p.rip + 2),
                          !.calls = << p.rip + 2 >> \o @],
                 ev |-> "ok"]
      [] op = OpEnter ->
           IF ~Mapped(p.mem, p.rsp - WordSize) \/ (p.rsp % WordSize) # 0
           THEN [p |-> p, ev |-> "segv"]
           ELSE [p |-> [Counted(p, p.rip) EXCEPT
                          !.rip = @ + 1,
                          !.rsp = @ - WordSize,
                          !.rbp = p.rsp - WordSize,
                          !.mem[p.rsp - WordSize] = ToWord(p.rbp),
                          !.depth = @ + 1],
                 ev |-> "ok"]
      [] op = OpRet ->
           IF ~Mapped(p.mem, p.rbp) \/ ~Mapped(p.mem, p.rbp + WordSize)
           THEN [p |-> p, ev |-> "segv"]
           ELSE [p |-> [Counted(p, p.rip) EXCEPT
                          !.rip = WordToAddr(p.mem[p.rbp + WordSize]),
                          !.rbp = WordToAddr(p.mem[p.rbp]),
                          !.rsp = p.rbp + 2 * WordSize,
                          !.calls = IF @ = << >> THEN @ ELSE Tail(@),
                          !.depth = IF @ = 0 THEN 0 ELSE @ - 1],
                 ev |-> "ok"]
      [] OTHER -> [p |-> p, ev |-> "ill"]

(***************************************************************************)
(* The kernel side of ptrace and waitpid (environment).                    *)
(***************************************************************************)

Stopped(sig, rip) == [kind |-> "Stopped", sig |-> sig, val |-> rip]
Exited(code)      == [kind |-> "Exited", sig |-> "none", val |-> code]
Signaled(sig)     == [kind |-> "Signaled", sig |-> sig, val |-> 0]
NoStatus          == [kind |-> "none", sig |-> "none", val |-> 0]

None == << >>
Some(x) == << x >>
IsSome(o) == o # << >>
Unwrap(o) == o[1]

\* a signal from outside reaches the running tracee: SIGKILL kills it, any
\* other signal puts it into a signal-delivery stop
Deliver(p, sig) ==
    IF sig = "SIGKILL"
    THEN [p EXCEPT !.st = "zombie", !.pending = FALSE,
                   !.zstatus = Signaled("SIGKILL")]
    ELSE [p EXCEPT !.st = "stopped", !.pending = TRUE, !.wsig = sig]

\* what the tracee becomes when the CPU raises ev
AfterEvent(p, ev) ==
    CASE ev = "trap" -> [p EXCEPT !.st = "stopped", !.pending = TRUE, !.wsig = "SIGTRAP"]
      [] ev = "segv" -> [p EXCEPT !.st = "stopped", !.pending = TRUE, !.wsig = "SIGSEGV"]
      [] ev = "ill"  -> [p EXCEPT !.st = "stopped", !.pending = TRUE, !.wsig = "SIGILL"]
      [] ev = "exit" -> [p EXCEPT !.st = "zombie", !.pending = FALSE,
                                  !.zstatus = Exited(p.acc)]

\* the longest run of the target between two events
RunFuel == 16

\* the tracee runs freely until the CPU raises an event
RECURSIVE RunFree(_, _)
RunFree(p, fuel) ==
    IF fuel = 0 THEN [p EXCEPT !.st = "spinning", !.pending = FALSE]
    ELSE LET Ran(r) == IF r.ev = "ok" THEN RunFree(r.p, fuel - 1)
                       ELSE AfterEvent(r.p, r.ev)
         IN  Ran(ExecInsn(p))

\* ptrace::cont(pid, None): fails (ESRCH) unless the tracee is stopped.  sig
\* is the environment's choice for this call: a signal from outside that
\* reaches the resumed tracee before it runs, or "none".
ptrace_cont(p, sig) ==
    IF p.st # "stopped" THEN [ok |-> FALSE, p |-> p]
    ELSE IF sig # "none" THEN [ok |-> TRUE, p |-> Deliver(p, sig)]
    ELSE [ok |-> TRUE, p |-> RunFree(p, RunFuel)]

\* ptrace::step(pid, None): one instruction, then a SIGTRAP stop
ptrace_step(p, sig) ==
    IF p.st # "stopped" THEN [ok |-> FALSE, p |-> p]
    ELSE IF sig # "none" THEN [ok |-> TRUE, p |-> Deliver(p, sig)]
    ELSE LET Ran(r) == AfterEvent(r.p, IF r.ev = "ok" THEN "trap" ELSE r.ev)
         IN  [ok |-> TRUE, p |-> Ran(ExecInsn(p))]

\* kill(pid, SIGKILL): succeeds on a live or zombie child, ESRCH once reaped
sys_kill(p) ==
    CASE p.st \in {"stopped", "spinning"} ->
           [ok |-> TRUE, p |-> Deliver(p, "SIGKILL")]
      [] p.st = "zombie" -> [ok |-> TRUE, p |-> p]
      [] OTHER -> [ok |-> FALSE, p |-> p]

\* Inferior::wait.  res is "ok", "err" (waitpid failed: no such child) or
\* "hang" (no event will ever come).
wait(p) ==
    CASE p.st = "zombie" ->
           [res |-> "ok", status |-> p.zstatus, p |-> [p EXCEPT !.st = "gone"]]
      [] p.st = "stopped" /\ p.pending ->
           [res |-> "ok", status |-> Stopped(p.wsig, p.rip),
            p |-> [p EXCEPT !.pending = FALSE]]
      [] p.st = "gone" ->
           [res |-> "err", status |-> NoStatus, p |-> p]
      [] OTHER ->
           [res |-> "hang", status |-> NoStatus, p |-> p]

(***************************************************************************)
(* DwarfData lookups (dwarf_data.rs): pure lookups over a static table.    *)
(***************************************************************************)

get_function_from_addr(addr) ==
    CASE addr >= MainAddr /\ addr < FooAddr -> Some("main")
      [] addr >= FooAddr /\ addr < BarAddr  -> Some("foo")
      [] addr >= BarAddr /\ addr <= TextEnd -> Some("bar")
      [] OTHER -> None

get_line_from_addr(addr) ==
    IF addr >= TextBase /\ addr <= TextEnd THEN Some(addr - TextBase + 1)
    ELSE None

(***************************************************************************)
(* Inferior (inferior.rs).  An Inferior is [stopped, orig_bytes]; its      *)
(* child process is the kernel-side record p.                              *)
(***************************************************************************)

MapInsert(m, k, v) == [x \in (DOMAIN m) \cup {k} |-> IF x = k THEN v ELSE m[x]]

NewInferior == [stopped |-> None, orig_bytes |-> << >>]

\* What Command::spawn and the first waitpid can report: the launch fails;
\* the child stops with SIGTRAP at exec; a signal from outside stops it
\* first; it is killed before it stops.
SpawnOutcomes == {"fail", "trap", "signal", "killed"}

SpawnedChild(outcome) ==
    CASE outcome = "trap"   -> FreshProcess
      [] outcome = "signal" -> Deliver(FreshProcess, "SIGINT")
      [] outcome = "killed" -> Deliver(FreshProcess, "SIGKILL")
      [] OTHER -> NoProcess

\* any stop taken for the stop at exec
first_stop_any_signal(status) == status.kind = "Stopped"

\* Inferior::new, line 80: WaitStatus::Stopped(_, Signal::SIGTRAP)
first_stop_is_trap(status) ==
    status.kind = "Stopped" /\ status.sig = "SIGTRAP"

\* Inferior::new.  inf is the Option<Inferior> returned, p the child.
new(outcome) ==
    LET Checked(w) ==
            IF w.res = "ok" /\ first_stop_is_trap(w.status)
            THEN [inf |-> Some(NewInferior), p |-> w.p]
            ELSE [inf |-> None, p |-> w.p]
    IN  IF outcome = "fail" THEN [inf |-> None, p |-> NoProcess]
        ELSE Checked(wait(SpawnedChild(outcome)))

\* The value cont returns and the effects it leaves.  out is "Ok" (status),
\* "Err" (a nix::Error; index is the breakpoint that could not be inserted,
\* errno "mem" for an unmapped address and "srch" for a tracee that is not
\* there), "Panic" (an unwrap failed) or "Hang" (wait never returns).  hit is
\* ghost: the address whose trap byte the free-running tracee executed.
\* trail and unarmed are ghost too: trail lists the ptrace operations the call
\* carried out, in order ("step", "patch" for the trap byte written back after
\* the step, one "install" per breakpoint written by the install loop, "cont",
\* "restore" and "rewind"); unarmed holds the registered addresses that did
\* not hold the trap byte when ptrace::cont let the child run.
ContResult(out, status, errno, index, hit, inf, p) ==
    [out |-> out, status |-> status, errno |-> errno, index |-> index,
     hit |-> hit, inf |-> inf, p |-> p, trail |-> << >>, unarmed |-> {}]

\* r, with the operations pre carried out before those of r
Traced(pre, r) == [r EXCEPT !.trail = pre \o @]

Repeated(op, n) == [i \in 1..n |-> op]

\* the registered addresses at which p does not hold the trap byte
Unarmed(p, breakpoints) ==
    { breakpoints[i] : i \in { j \in 1..Len(breakpoints) :
          \/ ~Mapped(p.mem, align_addr_to_word(breakpoints[j]))
          \/ ByteAt(p.mem[align_addr_to_word(breakpoints[j])],
                    breakpoints[j] % WordSize) # TrapByte } }

ErrnoOf(p) == IF p.st = "stopped" THEN "mem" ELSE "srch"

\* the position in the list, counted from 1
failed_position(i) == i

\* cont, lines 105 and 112: the index enumerate() gives the i-th breakpoint
failed_index(i) == i - 1

\* no breakpoint written
cont_install_skipped(inf, p, breakpoints, i) ==
    [ok |-> TRUE, inf |-> inf, p |-> p, index |-> 0]

\* cont, lines 104-117: insert every breakpoint, saving the byte read
RECURSIVE cont_install(_, _, _, _)
cont_install(inf, p, breakpoints, i) ==
    LET Inserted(w) ==
            IF w.ok
            THEN cont_install(
                   [inf EXCEPT !.orig_bytes = MapInsert(@, breakpoints[i], w.byte)],
                   w.p, breakpoints, i + 1)
            ELSE [ok |-> FALSE, inf |-> inf, p |-> p, index |-> failed_index(i)]
    IN  IF i > Len(breakpoints) THEN [ok |-> TRUE, inf |-> inf, p |-> p, index |-> 0]
        ELSE Inserted(write_byte(p, breakpoints[i], TrapByte))

\* registers written back as they were read
rewind_skipped(p) == p

\* cont, lines 127-129: getregs, rip -= 1, setregs
rewind(p) == [p EXCEPT !.rip = @ - 1]

\* cont, lines 122-135: after a stop at rip, restore and rewind when rip - 1
\* is a breakpoint
cont_restore(inf, p, breakpoints, status) ==
    LET rip == status.val
        breakpoint == rip - 1
        hit == IF status.sig = "SIGTRAP" THEN Some(breakpoint) ELSE None
        Restored(w) ==
            IF ~w.ok
            THEN ContResult("Panic", status, "none", 0, hit, inf, p)
            ELSE Traced(<< "restore", "rewind" >>,
                        ContResult("Ok", status, "none", 0, hit,
                                   [inf EXCEPT !.stopped = Some(breakpoint)],
                                   rewind(w.p)))
    IN  IF \E i \in 1..Len(breakpoints) : breakpoints[i] = breakpoint
        THEN IF breakpoint \notin DOMAIN inf.orig_bytes
             THEN ContResult("Panic", status, "none", 0, hit, inf, p)
             ELSE Restored(write_byte(p, breakpoint, inf.orig_bytes[breakpoint]))
        ELSE ContResult("Ok", status, "none", 0, None, inf, p)

\* cont, lines 119-135: let the tracee run and classify the next event
cont_run(inf, p, breakpoints, sig) ==
    LET Waited(w) ==
            CASE w.res = "err" ->
                   ContResult("Err", NoStatus, "srch", 0, None, inf, w.p)
              [] w.res = "hang" ->
                   ContResult("Hang", NoStatus, "none", 0, None, inf, w.p)
              [] w.status.kind = "Stopped" ->
                   cont_restore(inf, w.p, breakpoints, w.status)
              [] OTHER ->
                   ContResult("Ok", w.status, "none", 0, None, inf, w.p)
        Resumed(c) ==
            IF c.ok
            THEN [Traced(<< "cont" >>, Waited(wait(c.p)))
                      EXCEPT !.unarmed = Unarmed(p, breakpoints)]
            ELSE Waited(wait(c.p))
    IN  Resumed(ptrace_cont(p, sig))

\* cont, lines 104-135
cont_arm_and_run(inf, p, breakpoints, sig) ==
    LET Armed(a) ==
            IF ~a.ok
            THEN Traced(Repeated("install", a.index),
                        ContResult("Err", NoStatus, ErrnoOf(a.p), a.index, None,
                                   a.inf, a.p))
            ELSE Traced(Repeated("install", Len(breakpoints)),
                        cont_run(a.inf, a.p, breakpoints, sig))
    IN  Armed(cont_install(inf, p, breakpoints, 1))

\* When the signal of the environment's choice reaches the child: at the
\* first ptrace request of the resume that restarts it, or, for "SIGINT at
\* cont", not before ptrace::cont.
AtStep(sig) == IF sig = "SIGINT at cont" THEN "none" ELSE sig
AtCont(sig) == IF sig = "SIGINT at cont" THEN "SIGINT" ELSE sig

\* the step taken to have ended in a trap whatever signal stopped the child
step_stopped(status) == status.kind = "Stopped"

\* cont, line 96: if let Status::Stopped(signal::SIGTRAP, _) = status
step_stopped_by_trap(status) ==
    status.kind = "Stopped" /\ status.sig = "SIGTRAP"

\* Inferior::cont.  sig is the environment's choice for this call.  The
\* trail names, after "step", the kind and signal of the status the wait
\* after the step returned.
cont(inf, p, breakpoints, sig) ==
    LET breakpoint == Unwrap(inf.stopped)
        Repatched(w, b) ==
            IF ~b.ok
            THEN ContResult("Panic", w.status, "none", 0, None, inf, w.p)
            ELSE Traced(<< "patch" >>,
                        cont_arm_and_run([inf EXCEPT !.stopped = None],
                                         b.p, breakpoints, AtCont(sig)))
        Waited(w) ==
            CASE w.res = "err" ->
                   ContResult("Err", NoStatus, "srch", 0, None, inf, w.p)
              [] w.res = "hang" ->
                   ContResult("Hang", NoStatus, "none", 0, None, inf, w.p)
              [] step_stopped_by_trap(w.status) ->
                   Repatched(w, write_byte(w.p, breakpoint, TrapByte))
              [] OTHER ->
                   ContResult("Ok", w.status, "none", 0, None, inf, w.p)
        StepWaited(w) ==
            Traced(<< "step", w.status.kind, w.status.sig >>, Waited(w))
        Stepped(s) ==
            IF ~s.ok
            THEN ContResult("Err", NoStatus, "srch", 0, None, inf, p)
            ELSE StepWaited(wait(s.p))
    IN  IF IsSome(inf.stopped)
        THEN Stepped(ptrace_step(p, AtStep(sig)))
        ELSE cont_arm_and_run(inf, p, breakpoints, AtCont(sig))

\* the longest frame-pointer walk followed before it is taken to never end
WalkFuel == 6

\* ptrace::read of one word; the frame-pointer chain of the target holds
\* word-aligned addresses only
ptrace_read(p, addr) ==
    IF p.st = "stopped" /\ Mapped(p.mem, addr)
    THEN [ok |-> TRUE, val |-> WordToAddr(p.mem[addr])]
    ELSE [ok |-> FALSE, val |-> 0]

\* the frame base itself
frame_base_slot(rbp) == rbp

\* print_backtrace, line 153: where the caller's return address is saved
return_address_slot(rbp) == rbp + 8

\* print_backtrace, line 154: where the caller's frame base is saved
caller_frame_slot(rbp) == rbp

\* print_backtrace, lines 143-155.  frames are the (function, line) pairs
\* printed so far.
RECURSIVE backtrace_loop(_, _, _, _, _)
backtrace_loop(p, rip, rbp, frames, fuel) ==
    LET function == get_function_from_addr(rip)
        line     == get_line_from_addr(rip)
    IN  IF ~IsSome(function) \/ ~IsSome(line)
        THEN [out |-> "Panic", frames |-> frames]
        ELSE LET printed == Append(frames, << Unwrap(function), Unwrap(line) >>)
             IN  IF Unwrap(function) = "main"
                 THEN [out |-> "Ok", frames |-> printed]
                 ELSE LET ra == ptrace_read(p, return_address_slot(rbp))
                          fp == ptrace_read(p, caller_frame_slot(rbp))
                      IN  IF ~ra.ok \/ ~fp.ok
                          THEN [out |-> "Err", frames |-> printed]
                          ELSE IF fuel = 0
                          THEN [out |-> "Hang", frames |-> printed]
                          ELSE backtrace_loop(p, ra.val, fp.val, printed, fuel - 1)

\* Inferior::print_backtrace
print_backtrace(p) ==
    IF p.st # "stopped" THEN [out |-> "Err", frames |-> << >>]
    ELSE backtrace_loop(p, p.rip, p.rbp, << >>, WalkFuel)

\* Inferior::kill: Child::kill().unwrap(), then wait(None).unwrap()
kill(p) ==
    LET Waited(w) ==
            CASE w.res = "ok"   -> [out |-> "Ok", p |-> w.p]
              [] w.res = "hang" -> [out |-> "Hang", p |-> w.p]
              [] OTHER          -> [out |-> "Panic", p |-> w.p]
        Killed(k) ==
            IF ~k.ok THEN [out |-> "Panic", p |-> p]
            ELSE Waited(wait(k.p))
    IN  Killed(sys_kill(p))

(***************************************************************************)
(* Debugger (debugger.rs).                                                 *)
(***************************************************************************)

\* Debugger::kill: takes the inferior, if any, and kills it.  how is ghost:
\* "noop", "killed", or the "Panic"/"Hang" of Inferior::kill.
Debugger_kill(inferior, p) ==
    LET Taken(k) ==
            [inferior |-> None, p |-> k.p,
             how |-> IF k.out = "Ok" THEN "killed" ELSE k.out]
    IN  IF IsSome(inferior)
        THEN Taken(kill(p))
        ELSE [inferior |-> inferior, p |-> p, how |-> "noop"]

\* the inferior kept whatever the status
inferior_kept(inf, status) == Some(inf)

\* Debugger::cont, lines 58-76: what the session keeps of the inferior once
\* cont returned Ok(status)
inferior_after_status(inf, status) ==
    IF status.kind = "Stopped" THEN Some(inf) ELSE None

\* Debugger::cont.  r is what Inferior::cont returned (r.out = "none" when it
\* was not called because no program is being run).
Debugger_cont(inferior, p, breakpoints, sig) ==
    LET Matched(r) ==
            [inferior |-> IF r.out = "Ok"
                          THEN inferior_after_status(r.inf, r.status)
                          ELSE Some(r.inf),
             p |-> r.p,
             r |-> [out |-> r.out, status |-> r.status, errno |-> r.errno,
                    index |-> r.index, hit |-> r.hit, trail |-> r.trail,
                    unarmed |-> r.unarmed]]
    IN  IF IsSome(inferior)
        THEN Matched(cont(Unwrap(inferior), p, breakpoints, sig))
        ELSE [inferior |-> inferior, p |-> p,
              r |-> [out |-> "none", status |-> NoStatus, errno |-> "none",
                     index |-> 0, hit |-> None, trail |-> << >>,
                     unarmed |-> {}]]

\* the list emptied when a new child is started
breakpoints_dropped(breakpoints) == << >>

\* Debugger::run, Run arm: the list a new child is started with is the
\* session's list, which neither kill nor Inferior::new touches
breakpoints_kept(breakpoints) == breakpoints

\* an address already in the list not registered again
set_breakpoint_once(breakpoints, addr) ==
    [id |-> Len(breakpoints),
     breakpoints |-> IF \E i \in 1..Len(breakpoints) : breakpoints[i] = addr
                     THEN breakpoints ELSE Append(breakpoints, addr)]

\* Debugger::set_breakpoint: the id printed and the new list
set_breakpoint(breakpoints, addr) ==
    [id |-> Len(breakpoints), breakpoints |-> Append(breakpoints, addr)]

(***************************************************************************)
(* The session: Debugger::run's command loop, one action per command.      *)
(***************************************************************************)

VARIABLES
    breakpoints,  \* Debugger.breakpoints
    inferior,     \* Debugger.inferior: None or Some([stopped, orig_bytes])
    proc,         \* the child process of the inferior (kernel side)
    orphans,      \* live children of the session that no Inferior owns
    sess,         \* "prompt", "quit", "panic" (the session died), "blocked"
    lastCont,     \* what Inferior::cont returned, if the command just handled
                  \* called it
    btOut,        \* what print_backtrace printed and returned, if the
                  \* command just handled was a backtrace
    killHow,      \* ghost: what Debugger::kill did in the command just handled
    nResumes,     \* ghost: Inferior::cont calls on the current child
    hits,         \* ghost: breakpoints the current child ran into, in order
    lastSpawn,    \* ghost: what Inferior::new saw and returned, if the command
                  \* just handled called it
    bpIds         \* ghost: the ids set_breakpoint printed, in order

dbgVars == << breakpoints, inferior, proc, orphans, sess, lastCont, btOut,
              killHow, nResumes, hits, lastSpawn, bpIds >>

\* The state of the write_byte exercise further down, idle during a session.
VARIABLES
    wbProc,   \* the process: [st, mem], mem holding the one mapped word
    wbAddr,   \* the address patched
    wbWord,   \* the word before the first call
    wbByte,   \* the byte the first call returned
    wbVal,    \* the byte the first call was given
    wbStage   \* "off", "fresh", "patched", "written", "restored", "failed"

wbVars == << wbProc, wbAddr, wbWord, wbByte, wbVal, wbStage >>

\* The state of the week3 linked list further down.
VARIABLES
    llList,   \* the LinkedList the calls are made on: [head, size], head the
              \* values of the nodes front to back
    llCopy,   \* Some(the list clone returned) after a clone call, else None
    llRet,    \* the call just made and what it returned
    llModel   \* ghost: the values pushed and not yet popped, latest first

llVars == << llList, llCopy, llRet, llModel >>

\* The state of the week1 dedup exercise further down.
VARIABLES
    ddV,      \* the vector dedup is given and changes in place
    ddInput,  \* ghost: the vector as it was before the call
    ddStage   \* "off", "input", "done"

ddVars == << ddV, ddInput, ddStage >>

\* The state of proj-2 balancebeam further down.
VARIABLES
    max_requests_per_minute,  \* ProxyState.max_requests_per_minute
    requests_counters,        \* ProxyState.requests_counters: the HashMap as a
                              \* function from the client IPs it holds
    conns,                    \* the handle_connection tasks: [ip, pc, reqs,
                              \* answer], answer the response last sent to
                              \* the client: an error status of the proxy or
                              \* the relayed response of the upstream
    forwarded,                \* ghost: per client IP, the requests written to
                              \* an upstream since the last counter reset
    refused                   \* ghost: per client IP, the 429 answers since
                              \* the last counter reset

bbVars == << max_requests_per_minute, requests_counters, conns, forwarded,
             refused >>

\* The state of week6 parallel_map further down.
VARIABLES
    input,          \* ghost: the vector parallel_map was called with
    num_threads,    \* the argument num_threads
    input_vec,      \* the argument input_vec, popped by the sending loop
    output_vec,     \* the vector being filled
    threads,        \* the join handles pushed so far, as worker ids
    inChan,         \* the input channel: the (index, input) pairs in flight
    outChan,        \* the output channel: the (index, output) pairs in flight
    inSenders,      \* the threads holding a sender of the input channel
    outSenders,     \* the threads holding a sender of the output channel
    workers,        \* per worker: [pc, index, input], the pair it received
    pmPc,           \* where the calling thread is
    joined,         \* how many handles the calling thread has joined
    processed,      \* ghost: per index, the workers that applied f to it
    pmRet           \* the vector returned, once returned

pmVars == << input, num_threads, input_vec, output_vec, threads, inChan,
             outChan, inSenders, outSenders, workers, pmPc, joined,
             processed, pmRet >>

\* The state of balancebeam's upstream selection further down.
VARIABLES
    upstream_dead,   \* ProxyState.upstream_dead, one flag per upstream
    upstreamSt,      \* environment: what each upstream server does now:
                     \* "up" answers 200, "sick" accepts connections but
                     \* fails the health request, "down" refuses connections
    handlers,        \* the handle_connection tasks inside
                     \* connect_to_upstream: [pc, random_idx, failed];
                     \* failed is a ghost: the upstreams the call has failed
                     \* to connect to since it began and since the health
                     \* check last wrote a flag
    hc,              \* the active_health_check task: [pc, index, outcome,
                     \* seen], seen a ghost: what the upstream did when
                     \* checked
    lastCheck,       \* ghost: per upstream, "passed" or "failed" as it
                     \* answered 200 or not at its most recent check, "none"
                     \* before the first and once a handler has set the flag
                     \* since
    wasMarked        \* ghost: per upstream, whether a handler ever set its
                     \* flag

upVars == << upstream_dead, upstreamSt, handlers, hc, lastCheck, wasMarked >>

vars == << dbgVars, wbVars, llVars, ddVars, bbVars, pmVars, upVars >>

\* what a step of one program leaves alone: the state of the others
outsideDbg == << wbVars, llVars, ddVars, bbVars, pmVars, upVars >>
outsideWb  == << dbgVars, llVars, ddVars, bbVars, pmVars, upVars >>
outsideLl  == << dbgVars, wbVars, ddVars, bbVars, pmVars, upVars >>
outsideDd  == << dbgVars, wbVars, llVars, bbVars, pmVars, upVars >>
outsideBb  == << dbgVars, wbVars, llVars, ddVars, pmVars, upVars >>
outsidePm  == << dbgVars, wbVars, llVars, ddVars, bbVars, upVars >>
outsideUp  == << dbgVars, wbVars, llVars, ddVars, bbVars, pmVars >>

\* bounds of the exploration
MaxBps     == 2
MaxResumes == 3
MaxOrphans == 1

\* an address in no mapped segment
BadAddr == 8

\* the addresses a break command may name
BpAddrs == {MainAddr + 2, FooAddr, BarAddr + 1, BadAddr}

\* what the outside world does during one resume: nothing, or SIGKILL
EnvChoices == {"none", "SIGKILL"}

NoCont == [out |-> "none", status |-> NoStatus, errno |-> "none",
           index |-> 0, hit |-> None, trail |-> << >>, unarmed |-> {}]

NoBacktrace == [out |-> "none", frames |-> << >>]

NoSpawn == [called |-> FALSE, launched |-> FALSE, first |-> NoStatus,
            inf |-> None]

\* what Inferior::new(outcome) saw (whether the launch succeeded, the first
\* wait event of the child) and what it returned
SpawnSeen(outcome, n) ==
    [called   |-> TRUE,
     launched |-> outcome # "fail",
     first    |-> IF outcome = "fail" THEN NoStatus
                  ELSE wait(SpawnedChild(outcome)).status,
     inf      |-> n.inf]

DbgInit ==
    /\ breakpoints = << >>
    /\ inferior = None
    /\ proc = NoProcess
    /\ orphans = 0
    /\ sess = "prompt"
    /\ lastCont = NoCont
    /\ btOut = NoBacktrace
    /\ killHow = "none"
    /\ nResumes = 0
    /\ hits = << >>
    /\ lastSpawn = NoSpawn
    /\ bpIds = << >>

\* how the session goes on after an operation that returned out
SessAfter(out) ==
    CASE out = "Panic" -> "panic"
      [] out = "Hang"  -> "blocked"
      [] OTHER         -> "prompt"

\* DebuggerCommand::Run
CmdRun(outcome, sig) ==
    /\ sess = "prompt"
    /\ UNCHANGED << outsideDbg, bpIds >>
    /\ outcome = "signal" => orphans < MaxOrphans
    /\ outcome # "trap" => sig = "none"
    /\ btOut' = NoBacktrace
    /\ breakpoints' = breakpoints_kept(breakpoints)
    /\ \E k \in {Debugger_kill(inferior, proc)} :
           /\ killHow' = k.how
           /\ IF k.how \in {"Panic", "Hang"}
              THEN /\ sess' = SessAfter(k.how)
                   /\ inferior' = k.inferior
                   /\ proc' = k.p
                   /\ lastCont' = NoCont
                   /\ lastSpawn' = NoSpawn
                   /\ UNCHANGED << orphans, nResumes, hits >>
              ELSE \E n \in {new(outcome)} :
                     /\ lastSpawn' = SpawnSeen(outcome, n)
                     /\ IF IsSome(n.inf)
                        THEN \E d \in {Debugger_cont(n.inf, n.p, breakpoints', sig)} :
                                 /\ inferior' = d.inferior
                                 /\ proc' = d.p
                                 /\ lastCont' = d.r
                                 /\ sess' = SessAfter(d.r.out)
                                 /\ nResumes' = 1
                                 /\ hits' = d.r.hit
                                 /\ UNCHANGED orphans
                        ELSE /\ inferior' = None
                             /\ proc' = NoProcess
                             /\ orphans' = IF n.p.st = "stopped"
                                           THEN orphans + 1 ELSE orphans
                             /\ sess' = "prompt"
                             /\ nResumes' = 0
                             /\ hits' = << >>
                             /\ lastCont' = NoCont

\* a continue would start with a step over a breakpoint
PendingStep == IsSome(inferior) /\ IsSome(Unwrap(inferior).stopped)

\* DebuggerCommand::Continue
CmdContinue(sig) ==
    /\ sess = "prompt"
    /\ sig = "SIGINT at cont" => PendingStep
    /\ UNCHANGED << outsideDbg, bpIds >>
    /\ nResumes < MaxResumes
    /\ ~IsSome(inferior) => sig = "none"
    /\ btOut' = NoBacktrace
    /\ killHow' = "none"
    /\ lastSpawn' = NoSpawn
    /\ UNCHANGED << breakpoints, orphans >>
    /\ \E d \in {Debugger_cont(inferior, proc, breakpoints, sig)} :
           /\ inferior' = d.inferior
           /\ proc' = d.p
           /\ lastCont' = d.r
           /\ sess' = SessAfter(d.r.out)
           /\ nResumes' = IF IsSome(inferior) THEN nResumes + 1 ELSE nResumes
           /\ hits' = hits \o d.r.hit

\* DebuggerCommand::Backtrace: print_backtrace(..).unwrap()
CmdBacktrace ==
    /\ sess = "prompt"
    /\ UNCHANGED << outsideDbg, bpIds >>
    /\ killHow' = "none"
    /\ lastCont' = NoCont
    /\ lastSpawn' = NoSpawn
    /\ UNCHANGED << breakpoints, inferior, proc, orphans, nResumes, hits >>
    /\ IF IsSome(inferior)
       THEN \E b \in {print_backtrace(proc)} :
                /\ btOut' = b
                /\ sess' = SessAfter(IF b.out = "Err" THEN "Panic" ELSE b.out)
       ELSE /\ btOut' = NoBacktrace
            /\ sess' = "prompt"

\* DebuggerCommand::Break with an argument that resolves to addr
CmdBreak(addr) ==
    /\ sess = "prompt"
    /\ UNCHANGED outsideDbg
    /\ Len(breakpoints) < MaxBps
    /\ \E b \in {set_breakpoint(breakpoints, addr)} :
           /\ breakpoints' = b.breakpoints
           /\ bpIds' = Append(bpIds, b.id)
    /\ btOut' = NoBacktrace
    /\ killHow' = "none"
    /\ lastCont' = NoCont
    /\ lastSpawn' = NoSpawn
    /\ UNCHANGED << inferior, proc, orphans, sess, nResumes, hits >>

\* DebuggerCommand::Quit
CmdQuit ==
    /\ sess = "prompt"
    /\ UNCHANGED << outsideDbg, bpIds >>
    /\ btOut' = NoBacktrace
    /\ \E k \in {Debugger_kill(inferior, proc)} :
           /\ killHow' = k.how
           /\ inferior' = k.inferior
           /\ proc' = k.p
           /\ sess' = IF k.how \in {"Panic", "Hang"} THEN SessAfter(k.how)
                      ELSE "quit"
    /\ lastCont' = NoCont
    /\ lastSpawn' = NoSpawn
    /\ UNCHANGED << breakpoints, orphans, nResumes, hits >>

\* environment: SIGKILL from outside reaches the stopped child between two
\* commands
EnvKill ==
    /\ sess = "prompt"
    /\ UNCHANGED outsideDbg
    /\ IsSome(inferior)
    /\ proc.st = "stopped"
    /\ proc' = Deliver(proc, "SIGKILL")
    /\ UNCHANGED << breakpoints, inferior, orphans, sess, lastCont, btOut,
                    killHow, nResumes, hits, lastSpawn, bpIds >>

\* what the outside world does during one resume when the terminal of the
\* session is interrupted as well: nothing, SIGKILL, or SIGINT (ctrl-C
\* reaches the child, which stops)
SigChoices == {"none", "SIGKILL", "SIGINT", "SIGINT at cont"}

\* the session with interrupts: every child starts and stops at exec
SigNext ==
    \/ \E sig \in SigChoices \ {"SIGINT at cont"} : CmdRun("trap", sig)
    \/ \E sig \in SigChoices : CmdContinue(sig)
    \/ \E addr \in BpAddrs : CmdBreak(addr)
    \/ CmdQuit

DbgNext ==
    \/ \E outcome \in SpawnOutcomes, sig \in EnvChoices : CmdRun(outcome, sig)
    \/ \E sig \in EnvChoices : CmdContinue(sig)
    \/ CmdBacktrace
    \/ \E addr \in BpAddrs : CmdBreak(addr)
    \/ CmdQuit
    \/ EnvKill

(***************************************************************************)
(* write_byte on its own: one mapped word of a stopped process, patched    *)
(* with the trap byte and then restored with the byte the patch returned.  *)
(***************************************************************************)

\* the byte values tried at the patched address, and around it
WbBytes == {0, 1, 127, 128, TrapByte, ByteMax}
WbFill  == {0, ByteMax}

WbWords(off) ==
    { [i \in ByteIdx |-> IF i = off + 1 THEN b ELSE f[i]] :
        b \in WbBytes, f \in [ByteIdx -> WbFill] }

\* every byte offset of the mapped word, and one unmapped address
WbAddrs == (StackLow .. (StackLow + WordSize - 1)) \cup {BadAddr}

WbOff ==
    /\ wbStage = "off"
    /\ wbAddr = StackLow
    /\ wbWord = ToWord(0)
    /\ wbByte = 0
    /\ wbVal = 0
    /\ wbProc = [st |-> "stopped", mem |-> (StackLow :> ToWord(0))]

WbInit ==
    /\ wbStage = "fresh"
    /\ wbAddr \in WbAddrs
    /\ wbWord \in WbWords(wbAddr % WordSize)
    /\ wbByte = 0
    /\ wbVal = 0
    /\ wbProc = [st |-> "stopped", mem |-> (StackLow :> wbWord)]

\* write_byte(addr, 0xcc)
WbPatch ==
    /\ wbStage = "fresh"
    /\ \E w \in {write_byte(wbProc, wbAddr, TrapByte)} :
           /\ wbProc' = w.p
           /\ wbByte' = w.byte
           /\ wbStage' = IF w.ok THEN "patched" ELSE "failed"
    /\ wbVal' = TrapByte
    /\ UNCHANGED << wbAddr, wbWord >>
    /\ UNCHANGED outsideWb

\* write_byte(addr, val) for any other byte val (the byte cont writes back
\* for a breakpoint that was hit is whatever it saved)
WbWrite(val) ==
    /\ wbStage = "fresh"
    /\ val # TrapByte
    /\ \E w \in {write_byte(wbProc, wbAddr, val)} :
           /\ wbProc' = w.p
           /\ wbByte' = w.byte
           /\ wbStage' = IF w.ok THEN "written" ELSE "failed"
    /\ wbVal' = val
    /\ UNCHANGED << wbAddr, wbWord >>
    /\ UNCHANGED outsideWb

\* write_byte(addr, b), b the byte the patch returned
WbRestore ==
    /\ wbStage = "patched"
    /\ \E w \in {write_byte(wbProc, wbAddr, wbByte)} :
           /\ wbProc' = w.p
           /\ wbStage' = IF w.ok THEN "restored" ELSE "failed"
    /\ UNCHANGED << wbAddr, wbWord, wbByte, wbVal >>
    /\ UNCHANGED outsideWb

(***************************************************************************)
(* week3/linked_list (linked_list.rs): LinkedList<T> over a small T.  A    *)
(* list is [head, size]: head the chain of nodes as the sequence of their  *)
(* values front to back, size the size field.                              *)
(***************************************************************************)

\* the most nodes a list is grown to
MaxNodes == 3

\* the values of T pushed
LlValues == {1, 2, 3}

\* Option<T> as returned by pop_front
LlNone == << >>
LlSome(v) == << v >>

\* LinkedList::new
LinkedList_new == [head |-> << >>, size |-> 0]

get_size(l) == l.size

is_empty(l) == get_size(l) = 0

\* the value linked behind the last node
push_back(l, value) == [head |-> Append(l.head, value), size |-> l.size + 1]

\* LinkedList::push_front
push_front(l, value) == [head |-> << value >> \o l.head, size |-> l.size + 1]

\* LinkedList::pop_front: the list after the call and the value returned
pop_front(l) ==
    IF l.head = << >>
    THEN [list |-> l, ret |-> LlNone]
    ELSE [list |-> [head |-> Tail(l.head), size |-> l.size - 1],
          ret  |-> LlSome(Head(l.head))]

\* LinkedList::iter, collected
iter(l) == l.head

\* Clone::clone: a list with head None and the size of self, onto which the
\* values of self are pushed last to first
RECURSIVE clone_push(_, _, _)
clone_push(cloned, values, i) ==
    IF i = 0 THEN cloned
    ELSE clone_push(push_front(cloned, values[i]), values, i - 1)

clone(l) ==
    clone_push([head |-> << >>, size |-> l.size], iter(l), Len(iter(l)))

\* PartialEq::eq: equal sizes, and equal values as far as both lists go
\* (zip stops at the end of the shorter one)
eq(l, other) ==
    /\ l.size = other.size
    /\ \A i \in 1..(IF Len(iter(l)) <= Len(iter(other))
                    THEN Len(iter(l)) ELSE Len(iter(other))) :
           iter(l)[i] = iter(other)[i]

NoCall == [op |-> "none", val |-> LlNone]

LlOff ==
    /\ llList = LinkedList_new
    /\ llCopy = None
    /\ llRet = NoCall
    /\ llModel = << >>

\* let mut list = LinkedList::new()
LlInit ==
    /\ llList = LinkedList_new
    /\ llCopy = None
    /\ llRet = [op |-> "new", val |-> LlNone]
    /\ llModel = << >>

\* list.push_front(value)
PushFront(value) ==
    /\ Len(llList.head) < MaxNodes
    /\ llList' = push_front(llList, value)
    /\ llRet' = [op |-> "push_front", val |-> LlNone]
    /\ llModel' = << value >> \o llModel
    /\ llCopy' = None
    /\ UNCHANGED outsideLl

\* list.pop_front()
PopFront ==
    /\ \E r \in {pop_front(llList)} :
           /\ llList' = r.list
           /\ llRet' = [op |-> "pop_front", val |-> r.ret]
    /\ llModel' = IF llModel = << >> THEN llModel ELSE Tail(llModel)
    /\ llCopy' = None
    /\ UNCHANGED outsideLl

\* let copy = list.clone()
Clone ==
    /\ llCopy' = Some(clone(llList))
    /\ llRet' = [op |-> "clone", val |-> LlNone]
    /\ UNCHANGED << llList, llModel >>
    /\ UNCHANGED outsideLl

(***************************************************************************)
(* week1/part-2-warmup (main.rs): dedup.                                   *)
(***************************************************************************)

\* the longest vector given to dedup
MaxVec == 4

\* the i32 values in the vectors
DdValues == {0, 1, 3}

\* every element kept
retain_all(set, elem) == TRUE

\* dedup, lines 26-31: the closure given to retain, true for an element not
\* seen before
retain_unseen(set, elem) == elem \notin set

\* Vec::retain with the closure of dedup: the elements are visited once each,
\* in order; set is the HashSet of the values kept so far
RECURSIVE retain(_, _, _, _)
retain(v, i, set, kept) ==
    IF i > Len(v) THEN kept
    ELSE IF retain_unseen(set, v[i])
         THEN retain(v, i + 1, set \cup {v[i]}, Append(kept, v[i]))
         ELSE retain(v, i + 1, set, kept)

\* dedup(&mut v): the vector after the call
dedup(v) == retain(v, 1, {}, << >>)

DdVectors == UNION { [1..n -> DdValues] : n \in 0..MaxVec }

DdOff ==
    /\ ddStage = "off"
    /\ ddV = << >>
    /\ ddInput = << >>

DdInit ==
    /\ ddStage = "input"
    /\ ddV \in DdVectors
    /\ ddInput = ddV

\* dedup(&mut v)
Dedup ==
    /\ ddStage = "input"
    /\ ddV' = dedup(ddV)
    /\ ddStage' = "done"
    /\ UNCHANGED ddInput
    /\ UNCHANGED outsideDd

(***************************************************************************)
(* proj-2/balancebeam (main.rs): the rate limiter and the connection       *)
(* handlers.  Every handle_connection task is a process that moves from    *)
(* one await point to the next; the tasks and reset_counters interleave.   *)
(***************************************************************************)

\* the connections accepted in one exploration
MaxConns == 2

\* the requests one client sends on one connection
MaxReqs == 2

\* the largest --max-requests-per-minute tried (0 = unlimited)
MaxLimit == 1

ClientIps == {"10.0.0.1", "10.0.0.2"}

ConnIds == 1..MaxConns

NoConn == [ip |-> "none", pc |-> "unborn", reqs |-> 0, answer |-> "none"]

\* handle_connection, lines 216-222:
\* entry(client_ip).and_modify(|counts| *counts += 1).or_insert(1)
count_connection(counters, client_ip) ==
    IF client_ip \in DOMAIN counters
    THEN [counters EXCEPT ![client_ip] = @ + 1]
    ELSE [x \in (DOMAIN counters) \cup {client_ip} |->
              IF x = client_ip THEN 1 ELSE counters[x]]

\* main, line 98-105, with the --max-requests-per-minute given
BbInit ==
    /\ max_requests_per_minute \in 0..MaxLimit
    /\ requests_counters = << >>
    /\ conns = [c \in ConnIds |-> NoConn]
    /\ forwarded = [ip \in ClientIps |-> 0]
    /\ refused = [ip \in ClientIps |-> 0]

BbOff ==
    /\ max_requests_per_minute = 0
    /\ requests_counters = << >>
    /\ conns = [c \in ConnIds |-> NoConn]
    /\ forwarded = [ip \in ClientIps |-> 0]
    /\ refused = [ip \in ClientIps |-> 0]

\* main, lines 115-120: a connection from client_ip is accepted and its
\* handler spawned
Accept(c, client_ip) ==
    /\ conns[c].pc = "unborn"
    /\ \A b \in ConnIds : b < c => conns[b].pc # "unborn"
    /\ conns' = [conns EXCEPT ![c] = [NoConn EXCEPT !.ip = client_ip,
                                                    !.pc = "limit"]]
    /\ UNCHANGED << max_requests_per_minute, requests_counters, forwarded,
                    refused >>
    /\ UNCHANGED outsideBb

\* handle_connection, lines 215-228: the rate limit, checked once under the
\* write lock when the handler starts
RateLimit(c) ==
    /\ conns[c].pc = "limit"
    /\ IF max_requests_per_minute # 0
       THEN \E counted \in {count_connection(requests_counters, conns[c].ip)} :
                /\ requests_counters' = counted
                /\ IF counted[conns[c].ip] > max_requests_per_minute
                   THEN /\ conns' = [conns EXCEPT
                                       ![c].pc = "closed",
                                       ![c].answer = "TOO_MANY_REQUESTS"]
                        /\ refused' = [refused EXCEPT ![conns[c].ip] = @ + 1]
                   ELSE /\ conns' = [conns EXCEPT ![c].pc = "connect"]
                        /\ UNCHANGED refused
       ELSE /\ conns' = [conns EXCEPT ![c].pc = "connect"]
            /\ UNCHANGED << requests_counters, refused >>
    /\ UNCHANGED << max_requests_per_minute, forwarded >>
    /\ UNCHANGED outsideBb

\* handle_connection, lines 231-238: connect_to_upstream returned a stream
\* (connected) or ConnectionRefused
Connect(c, connected) ==
    /\ conns[c].pc = "connect"
    /\ conns' = IF connected
                THEN [conns EXCEPT ![c].pc = "serve"]
                ELSE [conns EXCEPT ![c].pc = "closed",
                                   ![c].answer = "BAD_GATEWAY"]
    /\ UNCHANGED << max_requests_per_minute, requests_counters, forwarded,
                    refused >>
    /\ UNCHANGED outsideBb

\* what one turn of the request loop can meet: the client hung up or the
\* read failed; the request did not parse; the write to the upstream failed;
\* the upstream got the request but its response could not be read; the
\* response was relayed
ServeOutcomes == {"hangup", "malformed", "upstream write failed",
                  "no response", "relayed"}

\* handle_connection, lines 243-310: one turn of the loop
Serve(c, outcome) ==
    /\ conns[c].pc = "serve"
    /\ outcome # "hangup" => conns[c].reqs < MaxReqs
    /\ conns' =
         CASE outcome = "hangup" ->
                [conns EXCEPT ![c].pc = "closed"]
           [] outcome = "malformed" ->
                [conns EXCEPT ![c].reqs = @ + 1, ![c].answer = "BAD_REQUEST"]
           [] outcome = "upstream write failed" ->
                [conns EXCEPT ![c].reqs = @ + 1, ![c].pc = "closed",
                              ![c].answer = "BAD_GATEWAY"]
           [] outcome = "no response" ->
                [conns EXCEPT ![c].reqs = @ + 1, ![c].pc = "closed",
                              ![c].answer = "BAD_GATEWAY"]
           [] OTHER ->
                [conns EXCEPT ![c].reqs = @ + 1, ![c].answer = "relayed"]
    /\ forwarded' = IF outcome \in {"no response", "relayed"}
                    THEN [forwarded EXCEPT ![conns[c].ip] = @ + 1]
                    ELSE forwarded
    /\ UNCHANGED << max_requests_per_minute, requests_counters, refused >>
    /\ UNCHANGED outsideBb

\* reset_counters, lines 150-153: a tick of the 60 s interval
ResetCounters ==
    /\ max_requests_per_minute # 0
    /\ requests_counters # << >> \/ \E ip \in ClientIps : forwarded[ip] # 0
    /\ requests_counters' = << >>
    /\ forwarded' = [ip \in ClientIps |-> 0]
    /\ refused' = [ip \in ClientIps |-> 0]
    /\ UNCHANGED << max_requests_per_minute, conns >>
    /\ UNCHANGED outsideBb

(***************************************************************************)
(* week6 parallel_map: the calling thread spawns num_threads workers,      *)
(* sends them every (index, input) pair through one unbounded channel,     *)
(* collects the (index, output) pairs from another and joins the workers.  *)
(* Each step below is one channel operation, spawn, drop or join; the      *)
(* scheduler interleaves the steps of the threads in every order.          *)
(***************************************************************************)

MaxInput   == 2
MaxThreads == 2

\* the elements of the input vectors
PmValues == {2, 3}

\* the input vectors
PmVectors == UNION { [1..n -> PmValues] : n \in 0..MaxInput }

\* main, lines 56-60: the closure handed to parallel_map
f(num) == num * num

\* i32::default()
Default == 0

MainThread == 0
WorkerIds  == 1..MaxThreads

NoWorker == [pc |-> "unborn", index |-> 0, input |-> 0]

\* the first slot, whatever is left in the vector
send_index_first(rest) == 0

\* line 37: the index sent with a popped element is the length of what is
\* left of the vector, the place the element had
send_index(rest) == Len(rest)

\* the calling thread keeps its sender
output_sender_kept(senders) == senders

\* line 34: the calling thread drops its sender of the output channel
drop_output_sender(senders) == senders \ {MainThread}

\* lines 13-21: the vector of defaults and the two channels exist, no
\* worker does
PmInit ==
    /\ input \in PmVectors
    /\ num_threads \in 0..MaxThreads
    /\ input_vec = input
    /\ output_vec = [i \in 1..Len(input) |-> Default]
    /\ threads = << >>
    /\ inChan = << >>
    /\ outChan = << >>
    /\ inSenders = {MainThread}
    /\ outSenders = {MainThread}
    /\ workers = [t \in WorkerIds |-> NoWorker]
    /\ pmPc = "spawn"
    /\ joined = 0
    /\ processed = [i \in 1..Len(input) |-> << >>]
    /\ pmRet = None

PmOff ==
    /\ input = << >>
    /\ num_threads = 0
    /\ input_vec = << >>
    /\ output_vec = << >>
    /\ threads = << >>
    /\ inChan = << >>
    /\ outChan = << >>
    /\ inSenders = {}
    /\ outSenders = {}
    /\ workers = [t \in WorkerIds |-> NoWorker]
    /\ pmPc = "off"
    /\ joined = 0
    /\ processed = << >>
    /\ pmRet = None

\* lines 23-33: one round of the spawning loop; the worker gets its clones
\* of the input receiver and of the output sender
PmSpawn ==
    /\ pmPc = "spawn"
    /\ Len(threads) < num_threads
    /\ workers' = [workers EXCEPT ![Len(threads) + 1].pc = "recv"]
    /\ outSenders' = outSenders \cup {Len(threads) + 1}
    /\ threads' = Append(threads, Len(threads) + 1)
    /\ UNCHANGED << input, num_threads, input_vec, output_vec, inChan,
                    outChan, inSenders, pmPc, joined, processed, pmRet >>
    /\ UNCHANGED outsidePm

\* line 34, after the last round of the spawning loop
PmDropOutputSender ==
    /\ pmPc = "spawn"
    /\ Len(threads) = num_threads
    /\ outSenders' = drop_output_sender(outSenders)
    /\ pmPc' = "send"
    /\ UNCHANGED << input, num_threads, input_vec, output_vec, threads,
                    inChan, outChan, inSenders, workers, joined, processed,
                    pmRet >>
    /\ UNCHANGED outsidePm

\* lines 36-38: one round of the sending loop, pop and send; the calling
\* thread holds a receiver of its own, so the send cannot fail
PmSend ==
    /\ pmPc = "send"
    /\ input_vec # << >>
    /\ input_vec' = SubSeq(input_vec, 1, Len(input_vec) - 1)
    /\ inChan' = Append(inChan, [index |-> send_index(input_vec'),
                                 input |-> input_vec[Len(input_vec)]])
    /\ UNCHANGED << input, num_threads, output_vec, threads, outChan,
                    inSenders, outSenders, workers, pmPc, joined, processed,
                    pmRet >>
    /\ UNCHANGED outsidePm

\* lines 36 and 39: pop returns None, the input sender is dropped
PmDropInputSender ==
    /\ pmPc = "send"
    /\ input_vec = << >>
    /\ inSenders' = inSenders \ {MainThread}
    /\ pmPc' = "collect"
    /\ UNCHANGED << input, num_threads, input_vec, output_vec, threads,
                    inChan, outChan, outSenders, workers, joined, processed,
                    pmRet >>
    /\ UNCHANGED outsidePm

\* lines 41-43: one round of the collecting loop; an index past the end of
\* output_vec panics
PmCollect ==
    /\ pmPc = "collect"
    /\ outChan # << >>
    /\ outChan' = Tail(outChan)
    /\ IF Head(outChan).index < Len(output_vec)
       THEN /\ output_vec' = [output_vec EXCEPT ![Head(outChan).index + 1] =
                                  Head(outChan).output]
            /\ pmPc' = pmPc
       ELSE /\ output_vec' = output_vec
            /\ pmPc' = "panicked"
    /\ UNCHANGED << input, num_threads, input_vec, threads, inChan,
                    inSenders, outSenders, workers, joined, processed,
                    pmRet >>
    /\ UNCHANGED outsidePm

\* line 41: recv returns Err when the channel is empty and every sender of
\* it is dropped; until then it blocks
PmCollectEnd ==
    /\ pmPc = "collect"
    /\ outChan = << >>
    /\ outSenders = {}
    /\ pmPc' = "join"
    /\ UNCHANGED << input, num_threads, input_vec, output_vec, threads,
                    inChan, outChan, inSenders, outSenders, workers, joined,
                    processed, pmRet >>
    /\ UNCHANGED outsidePm

\* lines 45-47: one round of the joining loop; join blocks until the worker
\* has exited
PmJoin ==
    /\ pmPc = "join"
    /\ joined < Len(threads)
    /\ workers[threads[joined + 1]].pc = "exited"
    /\ joined' = joined + 1
    /\ UNCHANGED << input, num_threads, input_vec, output_vec, threads,
                    inChan, outChan, inSenders, outSenders, workers, pmPc,
                    processed, pmRet >>
    /\ UNCHANGED outsidePm

\* line 49
PmReturn ==
    /\ pmPc = "join"
    /\ joined = Len(threads)
    /\ pmRet' = Some(output_vec)
    /\ pmPc' = "done"
    /\ UNCHANGED << input, num_threads, input_vec, output_vec, threads,
                    inChan, outChan, inSenders, outSenders, workers, joined,
                    processed >>
    /\ UNCHANGED outsidePm

\* line 27: worker t receives the pair at the head of the input channel
WorkerRecv(t) ==
    /\ workers[t].pc = "recv"
    /\ inChan # << >>
    /\ inChan' = Tail(inChan)
    /\ workers' = [workers EXCEPT ![t] = [pc |-> "apply",
                                          index |-> Head(inChan).index,
                                          input |-> Head(inChan).input]]
    /\ UNCHANGED << input, num_threads, input_vec, output_vec, threads,
                    outChan, inSenders, outSenders, pmPc, joined, processed,
                    pmRet >>
    /\ UNCHANGED outsidePm

\* lines 28-29: worker t applies f and sends the output; the calling thread
\* holds the output receiver until it returns, so the send cannot fail
WorkerSend(t) ==
    /\ workers[t].pc = "apply"
    /\ outChan' = Append(outChan, [index |-> workers[t].index,
                                   output |-> f(workers[t].input)])
    /\ processed' = [i \in DOMAIN processed |->
                        IF i = workers[t].index + 1
                        THEN Append(processed[i], t) ELSE processed[i]]
    /\ workers' = [workers EXCEPT ![t] = [NoWorker EXCEPT !.pc = "recv"]]
    /\ UNCHANGED << input, num_threads, input_vec, output_vec, threads,
                    inChan, inSenders, outSenders, pmPc, joined, pmRet >>
    /\ UNCHANGED outsidePm

\* lines 27 and 31: recv returns Err when the input channel is empty and its
\* sender is dropped; the closure ends and drops the worker's output sender
WorkerExit(t) ==
    /\ workers[t].pc = "recv"
    /\ inChan = << >>
    /\ inSenders = {}
    /\ workers' = [workers EXCEPT ![t].pc = "exited"]
    /\ outSenders' = outSenders \ {t}
    /\ UNCHANGED << input, num_threads, input_vec, output_vec, threads,
                    inChan, outChan, inSenders, pmPc, joined, processed,
                    pmRet >>
    /\ UNCHANGED outsidePm

\* the steps of the calling thread
PmMain ==
    \/ PmSpawn
    \/ PmDropOutputSender
    \/ PmSend
    \/ PmDropInputSender
    \/ PmCollect
    \/ PmCollectEnd
    \/ PmJoin
    \/ PmReturn

\* the steps of worker t
Worker(t) == WorkerRecv(t) \/ WorkerSend(t) \/ WorkerExit(t)

(***************************************************************************)
(* proj-2 balancebeam, the upstreams: connect_to_upstream as run by the    *)
(* connection handlers that passed the rate limiter, and the               *)
(* active_health_check task.  The upstream servers are the environment.    *)
(* Every await is a point where the tasks interleave.                      *)
(***************************************************************************)

MaxHandlers == 1

\* the upstreams of the command line, by their place in upstream_addresses
Upstreams   == {1, 2}
HandlerIds  == 1..MaxHandlers
UpstreamSts == {"up", "sick", "down"}

NoHandler == [pc |-> "unborn", random_idx |-> 0, failed |-> {}]

HcAsleep == [pc |-> "sleep", index |-> 0, outcome |-> None, seen |-> "none"]

\* connect_to_upstream, lines 176-183: the upstreams not flagged dead
alive_idxes(dead) == { index \in DOMAIN dead : ~dead[index] }

\* TcpStream::connect to an upstream doing st
connects(st) == st # "down"

\* a check that only connects
health_check_connect_only(st) == IF connects(st) THEN Some("ok") ELSE None

\* active_health_check_upstream, lines 124-145: Some(()) when the upstream
\* accepts the connection, takes the request and answers with status 200
active_health_check_upstream(st) ==
    IF ~connects(st) THEN None
    ELSE IF st = "up" THEN Some("ok") ELSE None

\* every upstream stays selectable
mark_skipped(dead, index) == dead

\* connect_to_upstream, line 193
mark_dead(dead, index) == [dead EXCEPT ![index] = TRUE]

\* main, lines 97-107: no upstream is flagged, the health check task sleeps
UpInit ==
    /\ upstream_dead = [u \in Upstreams |-> FALSE]
    /\ upstreamSt \in [Upstreams -> UpstreamSts]
    /\ handlers = [h \in HandlerIds |-> NoHandler]
    /\ hc = HcAsleep
    /\ lastCheck = [u \in Upstreams |-> "none"]
    /\ wasMarked = [u \in Upstreams |-> FALSE]

UpOff ==
    /\ upstream_dead = << >>
    /\ upstreamSt = << >>
    /\ handlers = [h \in HandlerIds |-> NoHandler]
    /\ hc = HcAsleep
    /\ lastCheck = << >>
    /\ wasMarked = << >>

\* handle_connection, line 231: handler h calls connect_to_upstream
HandlerStart(h) ==
    /\ handlers[h].pc = "unborn"
    /\ handlers' = [handlers EXCEPT ![h].pc = "select"]
    /\ UNCHANGED << upstream_dead, upstreamSt, hc, lastCheck, wasMarked >>
    /\ UNCHANGED outsideUp

\* connect_to_upstream, lines 176-189, and handle_connection, lines 233-237:
\* under the read lock the flags are read; with none alive the call returns
\* ConnectionRefused and the client is answered 502, else random_idx is
\* drawn among the alive
Select(h, random_idx) ==
    /\ handlers[h].pc = "select"
    /\ IF alive_idxes(upstream_dead) = {}
       THEN /\ random_idx = 0
            /\ handlers' = [handlers EXCEPT ![h].pc = "refused",
                                            ![h].random_idx = 0]
       ELSE /\ random_idx \in alive_idxes(upstream_dead)
            /\ handlers' = [handlers EXCEPT ![h].pc = "attempt",
                                            ![h].random_idx = random_idx]
    /\ UNCHANGED << upstream_dead, upstreamSt, hc, lastCheck, wasMarked >>
    /\ UNCHANGED outsideUp

\* connect_to_upstream, lines 191-193: the connection attempt
Attempt(h) ==
    /\ handlers[h].pc = "attempt"
    /\ IF connects(upstreamSt[handlers[h].random_idx])
       THEN handlers' = [handlers EXCEPT ![h].pc = "connected"]
       ELSE handlers' = [handlers EXCEPT
                ![h].pc = "mark",
                ![h].failed = @ \cup {handlers[h].random_idx}]
    /\ UNCHANGED << upstream_dead, upstreamSt, hc, lastCheck, wasMarked >>
    /\ UNCHANGED outsideUp

\* connect_to_upstream, line 193: under the write lock the flag is set, and
\* the loop starts over
MarkDead(h) ==
    /\ handlers[h].pc = "mark"
    /\ upstream_dead' = mark_dead(upstream_dead, handlers[h].random_idx)
    /\ lastCheck' = [lastCheck EXCEPT ![handlers[h].random_idx] = "none"]
    /\ wasMarked' = [wasMarked EXCEPT ![handlers[h].random_idx] = TRUE]
    /\ handlers' = [handlers EXCEPT ![h].pc = "select"]
    /\ UNCHANGED << upstreamSt, hc >>
    /\ UNCHANGED outsideUp

\* active_health_check, lines 162-164: a tick of the interval starts a round
HealthTick ==
    /\ hc.pc = "sleep"
    /\ hc' = [HcAsleep EXCEPT !.pc = "check", !.index = 1]
    /\ UNCHANGED << upstream_dead, upstreamSt, handlers, lastCheck,
                    wasMarked >>
    /\ UNCHANGED outsideUp

\* active_health_check, lines 166-168: the value assigned is evaluated
\* first, the upstream is checked before the write lock is taken
HealthCheck ==
    /\ hc.pc = "check"
    /\ hc' = [hc EXCEPT !.pc = "write",
                        !.outcome = active_health_check_upstream(
                                        upstreamSt[hc.index]),
                        !.seen = upstreamSt[hc.index]]
    /\ UNCHANGED << upstream_dead, upstreamSt, handlers, lastCheck,
                    wasMarked >>
    /\ UNCHANGED outsideUp

\* active_health_check, line 165: under the write lock the flag becomes
\* is_none() of the outcome; then the next upstream, or sleep
HealthWrite ==
    /\ hc.pc = "write"
    /\ upstream_dead' = [upstream_dead EXCEPT ![hc.index] = ~IsSome(hc.outcome)]
    /\ lastCheck' = [lastCheck EXCEPT ![hc.index] =
                         IF hc.seen = "up" THEN "passed" ELSE "failed"]
    /\ handlers' = [h \in HandlerIds |->
                       IF handlers[h].pc \in {"select", "attempt", "mark"}
                       THEN [handlers[h] EXCEPT !.failed = {}]
                       ELSE handlers[h]]
    /\ UNCHANGED wasMarked
    /\ hc' = IF hc.index < Len(upstream_dead)
             THEN [HcAsleep EXCEPT !.pc = "check", !.index = hc.index + 1]
             ELSE HcAsleep
    /\ UNCHANGED upstreamSt
    /\ UNCHANGED outsideUp

\* environment: upstream u starts doing st
UpstreamTurns(u, st) ==
    /\ upstreamSt[u] # st
    /\ upstreamSt' = [upstreamSt EXCEPT ![u] = st]
    /\ UNCHANGED << upstream_dead, handlers, hc, lastCheck, wasMarked >>
    /\ UNCHANGED outsideUp

(***************************************************************************)
(* Specifications.                                                         *)
(***************************************************************************)

Init == DbgInit /\ WbOff /\ LlOff /\ DdOff /\ BbOff /\ PmOff /\ UpOff

Next == DbgNext

\* the debugger session
Spec == Init /\ [][Next]_vars

\* the debugger session with interrupts from the terminal
SignalSpec == Init /\ [][SigNext]_vars

WriteByteInit == WbInit /\ DbgInit /\ LlOff /\ DdOff /\ BbOff /\ PmOff /\ UpOff

WriteByteNext ==
    \/ WbPatch
    \/ WbRestore
    \/ \E val \in WbBytes : WbWrite(val)

\* write_byte alone
WriteByteSpec == WriteByteInit /\ [][WriteByteNext]_vars

LinkedListInit == LlInit /\ DbgInit /\ WbOff /\ DdOff /\ BbOff /\ PmOff /\ UpOff

LinkedListNext ==
    \/ \E value \in LlValues : PushFront(value)
    \/ PopFront
    \/ Clone

\* a LinkedList from new() on
LinkedListSpec == LinkedListInit /\ [][LinkedListNext]_vars

DedupInit == DdInit /\ DbgInit /\ WbOff /\ LlOff /\ BbOff /\ PmOff /\ UpOff

DedupNext == Dedup

\* dedup on every vector up to MaxVec long
DedupSpec == DedupInit /\ [][DedupNext]_vars

BalanceInit == BbInit /\ DbgInit /\ WbOff /\ LlOff /\ DdOff /\ PmOff /\ UpOff

BalanceNext ==
    \/ \E c \in ConnIds, client_ip \in ClientIps : Accept(c, client_ip)
    \/ \E c \in ConnIds : RateLimit(c)
    \/ \E c \in ConnIds, connected \in BOOLEAN : Connect(c, connected)
    \/ \E c \in ConnIds, outcome \in ServeOutcomes : Serve(c, outcome)
    \/ ResetCounters

\* balancebeam serving its clients
BalanceSpec == BalanceInit /\ [][BalanceNext]_vars

ParallelMapInit ==
    PmInit /\ DbgInit /\ WbOff /\ LlOff /\ DdOff /\ BbOff /\ UpOff

ParallelMapNext ==
    \/ PmSpawn
    \/ PmDropOutputSender
    \/ PmSend
    \/ PmDropInputSender
    \/ PmCollect
    \/ PmCollectEnd
    \/ PmJoin
    \/ PmReturn
    \/ \E t \in WorkerIds : WorkerRecv(t)
    \/ \E t \in WorkerIds : WorkerSend(t)
    \/ \E t \in WorkerIds : WorkerExit(t)

\* one call of parallel_map under every interleaving
ParallelMapSpec == ParallelMapInit /\ [][ParallelMapNext]_vars

\* the same where the scheduler lets every thread that can take a step take
\* one eventually: the calling thread and each worker are OS threads
ParallelMapFairSpec ==
    /\ ParallelMapSpec
    /\ WF_vars(PmMain)
    /\ \A t \in WorkerIds : WF_vars(Worker(t))

UpstreamInit == UpInit /\ DbgInit /\ WbOff /\ LlOff /\ DdOff /\ BbOff /\ PmOff

UpstreamNext ==
    \/ \E h \in HandlerIds : HandlerStart(h)
    \/ \E h \in HandlerIds, random_idx \in Upstreams \cup {0} :
           Select(h, random_idx)
    \/ \E h \in HandlerIds : Attempt(h)
    \/ \E h \in HandlerIds : MarkDead(h)
    \/ HealthTick
    \/ HealthCheck
    \/ HealthWrite
    \/ \E u \in Upstreams, st \in UpstreamSts : UpstreamTurns(u, st)

\* balancebeam choosing upstreams while the health check runs
UpstreamSpec == UpstreamInit /\ [][UpstreamNext]_vars

(***************************************************************************)
(* Properties.                                                             *)
(***************************************************************************)

\* the byte the program image holds at addr
PristineByte(addr) == FetchByte(FreshProcess, addr)

\* the target run to its end with nothing interfering
FreeRun == RunFree(FreshProcess, RunFuel)

ActualExitCode == FreeRun.zstatus.val

ExecutedOnce(addr) == addr \in DOMAIN FreeRun.execs /\ FreeRun.execs[addr] = 1

Registered == { breakpoints[i] : i \in 1..Len(breakpoints) }

\* the last command was a resume of a child with a step-over pending at a
PendingAt(a) ==
    /\ IsSome(inferior)
    /\ Unwrap(inferior).stopped = Some(a)

\* the function a call returning to ret has entered
Callee(ret) == get_function_from_addr(PristineByte(ret - 1))

\* The child is stopped inside main or inside the function entered by its
\* innermost call, every call in progress was made from the function its
\* caller entered, the outermost from main, and each has set up its frame.
ChainIntact(p) ==
    LET pcs == << p.rip >> \o p.calls
    IN  /\ p.st = "stopped"
        /\ p.depth = Len(p.calls)
        /\ \A i \in 1..Len(p.calls) :
               get_function_from_addr(pcs[i]) = Callee(p.calls[i])
        /\ get_function_from_addr(pcs[Len(pcs)]) = Some("main")

\* the frames of the calls in progress, innermost first
ExpectedFrames(p) ==
    LET pcs == << p.rip >> \o p.calls
    IN  [i \in 1..Len(pcs) |->
            << Unwrap(get_function_from_addr(pcs[i])),
               Unwrap(get_line_from_addr(pcs[i])) >>]

\* C1: every byte saved for a breakpoint address is the byte the program
\* held there before the first trap byte was written, never the trap byte.
C1_SavedByteIsOriginal ==
    IsSome(inferior) =>
        \A a \in DOMAIN Unwrap(inferior).orig_bytes :
            Unwrap(inferior).orig_bytes[a] = PristineByte(a)

\* C2: write_byte(addr, 0xCC) followed by write_byte(addr, b), b the byte
\* the first call returned, leaves the aligned word containing addr as it
\* was before the first call.
C2_PatchRestoreRoundTrip ==
    wbStage = "restored" =>
        wbProc.mem[align_addr_to_word(wbAddr)] = wbWord

C2_RestoredMisaligned ==
    /\ wbStage = "restored"
    /\ wbAddr % WordSize = 5
    /\ wbByte = 127
    /\ wbWord[7] = ByteMax

\* C3: with breakpoints A and B registered, each executed once by the
\* undisturbed target, once the first resume stopped at A and the second at
\* B, the third resume, if nothing from outside killed the child, returns
\* Exited with the exit code of the undisturbed target.
C3_ThirdResumeExits ==
    ( /\ nResumes = 3
      /\ Len(hits) >= 2
      /\ hits[1] # hits[2]
      /\ Registered = {hits[1], hits[2]}
      /\ ExecutedOnce(hits[1]) /\ ExecutedOnce(hits[2])
      /\ lastCont.out = "Ok"
      /\ lastCont.status.kind # "Signaled" )
    => lastCont.status = Exited(ActualExitCode)

\* C4: a resume with a step-over pending at A that ends in a stop at a
\* breakpoint has executed the instruction at A exactly once.
C4_SteppedInstructionRunsOnce ==
    [][ \A a \in BpAddrs :
          ( /\ PendingAt(a)
            /\ nResumes' = nResumes + 1
            /\ lastCont'.out = "Ok"
            /\ IsSome(lastCont'.hit) )
          => proc'.execs[a] = proc.execs[a] + 1 ]_vars

C6_FailedResumeDoesNotRun ==
    [][ ( /\ IsSome(inferior)
          /\ nResumes' = nResumes + 1
          /\ lastCont'.out = "Err"
          /\ lastCont'.errno = "mem" )
        => (proc'.rip = proc.rip /\ IsSome(inferior')) ]_vars

\* C7: at most one child spawned by the session is alive.
C7_AtMostOneLiveChild ==
    orphans + (IF proc.st \in {"stopped", "spinning"} THEN 1 ELSE 0) <= 1

\* C8: Debugger::kill never panics and never blocks, whether or not a child
\* is held and whatever became of the last child.
C8_KillNeverPanicsOrBlocks == killHow \notin {"Panic", "Hang"}

C8_QuitAfterExit ==
    /\ sess = "quit"
    /\ killHow = "noop"
    /\ proc.st = "gone"
    /\ proc.zstatus.kind = "Exited"

\* C9: for a stopped child whose N calls in progress have all set up their
\* frames, backtrace prints the N (function, line) pairs innermost first,
\* main last, and returns.
C9_BacktraceListsFrames ==
    (btOut.out # "none" /\ ChainIntact(proc)) =>
        /\ btOut.out = "Ok"
        /\ btOut.frames = ExpectedFrames(proc)
        /\ btOut.frames[Len(btOut.frames)][1] = "main"

C9_ThreeFrames ==
    /\ btOut.out = "Ok"
    /\ ChainIntact(proc)
    /\ Len(btOut.frames) = 3
    /\ btOut.frames[1][1] = "bar"

\* C10: a backtrace that fails (memory access or symbol lookup) leaves the
\* session at its prompt.
C10_BacktraceFailureKeepsSession ==
    btOut.out \in {"Err", "Panic"} => sess = "prompt"

\* the last command resumed the child and the resume classified it as ended
ClassifiedTerminated ==
    /\ lastCont.out = "Ok"
    /\ lastCont.status.kind \in {"Exited", "Signaled"}

\* a child classified as ended is reaped and the session holds no inferior
TerminatedIsDiscarded ==
    ClassifiedTerminated => (inferior = None /\ proc.st = "gone")

\* C11: once a resume has classified the child as Exited or Signaled, the
\* session holds no inferior and the child is reaped; from then on no command
\* reaches it: no kill or wait fails on it (no panic, no block), no step,
\* memory access or wait reports that it is not there, no backtrace reads it,
\* and its record stays as it was until a run replaces it.
C11_TerminatedChildIsLeftAlone ==
    /\ TerminatedIsDiscarded
    /\ [][ /\ TerminatedIsDiscarded'
           /\ (proc.st = "gone" /\ proc.zstatus # NoEvent) =>
                 /\ killHow' \in {"none", "noop"}
                 /\ lastCont'.errno # "srch"
                 /\ btOut'.out = "none"
                 /\ sess' \in {"prompt", "quit"}
                 /\ \/ proc' = proc
                    \/ proc' = NoProcess
                    \/ nResumes' = 1 ]_vars

\* the child exited during a resume and a later command found no inferior
C11_CommandAfterExit ==
    /\ proc.st = "gone"
    /\ proc.zstatus.kind = "Exited"
    /\ inferior = None
    /\ nResumes >= 1
    /\ lastCont.out = "none"
    /\ sess = "prompt"

\* C12: Inferior::new returns an inferior only if the launch succeeded and
\* the first wait event of the child is a stop with SIGTRAP; otherwise it
\* returns None and the session is left holding no inferior.  The inferior
\* returned has no step-over mark and no saved bytes.
C12_SpawnNeedsTrapStop ==
    lastSpawn.called =>
        /\ IsSome(lastSpawn.inf) =>
               /\ lastSpawn.launched
               /\ lastSpawn.first.kind = "Stopped"
               /\ lastSpawn.first.sig = "SIGTRAP"
               /\ Unwrap(lastSpawn.inf).stopped = None
               /\ DOMAIN Unwrap(lastSpawn.inf).orig_bytes = {}
        /\ ( \/ ~lastSpawn.launched
             \/ lastSpawn.first.kind # "Stopped"
             \/ lastSpawn.first.sig # "SIGTRAP" ) =>
               /\ lastSpawn.inf = None
               /\ inferior = None
               /\ lastCont = NoCont

\* the child was stopped by another signal before its stop at exec
C12_StoppedByOtherSignal ==
    /\ lastSpawn.called
    /\ lastSpawn.first = Stopped("SIGINT", MainAddr)
    /\ lastSpawn.inf = None
    /\ inferior = None
    /\ Len(breakpoints) = 1

\* s is a prefix of t
IsPrefix(s, t) ==
    /\ Len(s) <= Len(t)
    /\ \A i \in 1..Len(s) : s[i] = t[i]

\* C13: a step that spawns, resumes, kills or backtraces a child, that ends
\* the session or in which the child changes leaves the list of breakpoints
\* as it was; no step ever removes or reorders a registered breakpoint.
C13_BreakpointsOutliveChildren ==
    [][ /\ IsPrefix(breakpoints, breakpoints')
        /\ ( \/ lastSpawn'.called
             \/ lastCont'.out # "none"
             \/ btOut'.out # "none"
             \/ killHow' # "none"
             \/ proc' # proc
             \/ inferior' # inferior
             \/ sess' # sess ) => breakpoints' = breakpoints ]_vars

\* a second child was started, the first one killed, with a breakpoint
\* registered before the first run and one during it
C13_SecondRunSameList ==
    /\ lastSpawn.called
    /\ killHow = "killed"
    /\ breakpoints = << FooAddr, BarAddr + 1 >>
    /\ lastCont.hit = Some(FooAddr)

\* one id per registered breakpoint, the i-th being i - 1
IdsAreSequential ==
    /\ Len(bpIds) = Len(breakpoints)
    /\ \A i \in 1..Len(bpIds) : bpIds[i] = i - 1

\* C14: the ids printed are 0, 1, 2, ... in request order, one per
\* registered breakpoint, and a break command appends its address to the
\* list whether or not the address is already there.
C14_IdsCountRegistrations ==
    /\ IdsAreSequential
    /\ [][ /\ IdsAreSequential'
           /\ bpIds' # bpIds =>
                 /\ bpIds' = Append(bpIds, Len(breakpoints))
                 /\ \E addr \in BpAddrs :
                        breakpoints' = Append(breakpoints, addr)
         ]_vars

\* the same address registered twice
C14_SameAddressTwice ==
    /\ breakpoints = << FooAddr, FooAddr >>
    /\ bpIds = << 0, 1 >>

\* C15: the list clone returns is equal to the list cloned: eq holds, the
\* sizes are the same, the values are the same in the same order, and the
\* size of the clone is its number of nodes.
C15_CloneEqualsOriginal ==
    IsSome(llCopy) =>
        /\ eq(Unwrap(llCopy), llList)
        /\ get_size(Unwrap(llCopy)) = get_size(llList)
        /\ iter(Unwrap(llCopy)) = iter(llList)
        /\ get_size(Unwrap(llCopy)) = Len(iter(Unwrap(llCopy)))

\* the list holds the values pushed and not yet popped, latest first, and
\* its size says how many
HoldsThePushed ==
    /\ iter(llList) = llModel
    /\ get_size(llList) = Len(iter(llList))
    /\ is_empty(llList) <=> (Len(iter(llList)) = 0)

\* C16: from new() on, through any pushes and pops, the values held are the
\* values pushed and not yet popped, latest first; pop_front returns Some of
\* the latest of them, or None and the list unchanged when there is none;
\* get_size is the number of nodes and is_empty holds exactly when it is 0.
C16_ListIsLifoStack ==
    /\ HoldsThePushed
    /\ [][ /\ HoldsThePushed'
           /\ llRet'.op = "pop_front" =>
                 IF llModel = << >>
                 THEN llRet'.val = LlNone /\ llList' = llList
                 ELSE /\ llRet'.val = LlSome(llModel[1])
                      /\ iter(llList') = Tail(llModel)
         ]_vars

\* 1 then 2 pushed, 2 popped
C16_PoppedLatest ==
    /\ llRet = [op |-> "pop_front", val |-> LlSome(2)]
    /\ iter(llList) = << 1 >>
    /\ get_size(llList) = 1

\* the values of a vector
ValuesOf(v) == { v[i] : i \in 1..Len(v) }

\* where x first occurs in v
FirstIndex(v, x) ==
    CHOOSE i \in 1..Len(v) : v[i] = x /\ \A j \in 1..(i - 1) : v[j] # x

\* C17: after dedup the vector holds no value twice, holds the values of the
\* input, and holds them in the order of their first occurrences in the
\* input (so it is the subsequence of first occurrences).
C17_DedupKeepsFirstOccurrences ==
    ddStage = "done" =>
        /\ \A k, l \in 1..Len(ddV) : k # l => ddV[k] # ddV[l]
        /\ ValuesOf(ddV) = ValuesOf(ddInput)
        /\ \A k, l \in 1..Len(ddV) :
               k < l => FirstIndex(ddInput, ddV[k]) < FirstIndex(ddInput, ddV[l])

\* a vector with a value repeated apart and a value repeated side by side
C17_RepeatsRemoved ==
    /\ ddStage = "done"
    /\ ddInput = << 3, 1, 3, 3 >>
    /\ ddV = << 3, 1 >>

\* C18: with a limit N > 0, between two counter resets at most N requests
\* of one client IP are written to an upstream, and every further request of
\* that IP is answered 429.
C18_AtMostLimitForwarded ==
    max_requests_per_minute > 0 =>
        \A ip \in ClientIps : forwarded[ip] <= max_requests_per_minute

\* C19: write_byte(addr, val) on a mapped address succeeds, returns the
\* byte the word held at addr, leaves val there and the other seven bytes
\* of the word as they were, and touches the word at addr rounded down to a
\* multiple of 8 only; on an address whose word cannot be read it fails and
\* memory is as it was.
C19_WriteByteTouchesOneByte ==
    /\ (wbStage \in {"patched", "written", "failed"}
        /\ Mapped((StackLow :> wbWord), wbAddr - (wbAddr % 8))) =>
           /\ wbStage # "failed"
           /\ wbByte = wbWord[(wbAddr % 8) + 1]
           /\ DOMAIN wbProc.mem = {StackLow}
           /\ \A i \in ByteIdx :
                  wbProc.mem[wbAddr - (wbAddr % 8)][i] =
                      IF i = (wbAddr % 8) + 1 THEN wbVal ELSE wbWord[i]
    /\ wbStage = "failed" =>
           /\ ~Mapped((StackLow :> wbWord), wbAddr - (wbAddr % 8))
           /\ wbProc.mem = (StackLow :> wbWord)

\* a byte written in the middle of a word of ones
C19_MiddleByteWritten ==
    /\ wbStage = "written"
    /\ wbAddr = StackLow + 3
    /\ wbVal = 1
    /\ wbByte = ByteMax
    /\ wbWord = [i \in ByteIdx |-> ByteMax]

\* C20: when a resume returns from a trap stop at a registered breakpoint A
\* (the stop reported A + 1), the child's memory holds at A the byte of the
\* program image, its instruction pointer is A, and the step-over mark is A.
C20_HitBreakpointIsRestored ==
    ( /\ lastCont.out = "Ok"
      /\ lastCont.status.kind = "Stopped"
      /\ lastCont.status.sig = "SIGTRAP"
      /\ (lastCont.status.val - 1) \in Registered ) =>
        /\ FetchByte(proc, lastCont.status.val - 1)
               = PristineByte(lastCont.status.val - 1)
        /\ proc.rip = lastCont.status.val - 1
        /\ PendingAt(lastCont.status.val - 1)

\* the operations of a trail from position i on
TrailFrom(trail, i) == SubSeq(trail, i, Len(trail))

\* the instructions the child has executed
Executed(p) ==
    LET RECURSIVE Sum(_)
        Sum(a) == IF a > TextEnd THEN 0 ELSE p.execs[a] + Sum(a + 1)
    IN  Sum(TextBase)

\* C21: a resume with a step-over pending at A first single-steps, once.
\* When the status of the step is a SIGTRAP stop it then writes the trap
\* byte at A, then writes every registered breakpoint, then continues the
\* child, and the mark it returns with is not the old one unless the child
\* ran into a breakpoint again.  When the status of the step is anything
\* else, that status is returned at once: nothing is written to memory,
\* nothing is installed, the child is not continued and has executed at most
\* the stepped instruction.
C21_StepOverThenArm ==
    [][ \A a \in BpAddrs :
          ( PendingAt(a) /\ proc.st = "stopped"
            /\ nResumes' = nResumes + 1 /\ lastCont'.out # "Panic" ) =>
            LET trail == lastCont'.trail IN
            /\ Len(trail) >= 3
            /\ trail[1] = "step"
            /\ \A i \in 2..Len(trail) : trail[i] # "step"
            /\ IF trail[2] = "Stopped" /\ trail[3] = "SIGTRAP"
               THEN /\ Len(trail) >= 4 /\ trail[4] = "patch"
                    /\ \/ /\ lastCont'.out = "Err"
                          /\ TrailFrom(trail, 5)
                                 = Repeated("install", lastCont'.index)
                          /\ lastCont'.index < Len(breakpoints)
                       \/ /\ lastCont'.out \in {"Ok", "Hang"}
                          /\ SubSeq(trail, 5, 5 + Len(breakpoints))
                                 = Repeated("install", Len(breakpoints))
                                       \o << "cont" >>
                    /\ \/ ~IsSome(inferior')
                       \/ Unwrap(inferior').stopped = None
                       \/ TrailFrom(trail, Len(trail) - 1)
                              = << "restore", "rewind" >>
               ELSE /\ Len(trail) = 3
                    /\ lastCont'.out = "Ok"
                    /\ lastCont'.status.kind = trail[2]
                    /\ lastCont'.status.sig = trail[3]
                    /\ proc'.mem = proc.mem
                    /\ Executed(proc') <= Executed(proc) + 1
                    /\ IsSome(inferior') => Unwrap(inferior') = Unwrap(inferior)
      ]_vars

\* the child was interrupted during the step over the breakpoint at foo and
\* is still stopped there with the mark set
C21_InterruptedStep ==
    /\ lastCont.trail = << "step", "Stopped", "SIGINT" >>
    /\ PendingAt(FooAddr)
    /\ proc.rip = FooAddr

\* C22: whenever a resume has let the child run (ptrace::cont succeeded),
\* every registered address held the trap byte at that moment: the resume
\* wrote each of them just before, the one stepped over included.
C22_ArmedWhenRunning ==
    \A i \in 1..Len(lastCont.trail) :
        lastCont.trail[i] = "cont" =>
            /\ lastCont.unarmed = {}
            /\ i > Len(breakpoints)
            /\ SubSeq(lastCont.trail, i - Len(breakpoints), i - 1)
                   = Repeated("install", Len(breakpoints))

\* the child ran on after the step over foo's breakpoint, with a breakpoint
\* registered while it was stopped there
C22_RanOnWithNewBreakpoint ==
    /\ breakpoints = << FooAddr, BarAddr + 1 >>
    /\ lastCont.trail = << "step", "Stopped", "SIGTRAP", "patch", "install",
                           "install", "cont", "restore", "rewind" >>
    /\ lastCont.hit = Some(BarAddr + 1)
    /\ nResumes = 2
    /\ Len(hits) = 2

\* C23: a resume that ends in a stop by a signal other than SIGTRAP has
\* restored no breakpoint and rewound nothing: the child's instruction
\* pointer is the one the stop reported, and the resume has not set the
\* step-over mark to the address before it.
C23_OnlyTrapStopsRestore ==
    ( /\ lastCont.out = "Ok"
      /\ lastCont.status.kind = "Stopped"
      /\ lastCont.status.sig # "SIGTRAP" ) =>
        /\ \A i \in 1..Len(lastCont.trail) :
               lastCont.trail[i] \notin {"restore", "rewind"}
        /\ proc.rip = lastCont.status.val

\* how often op occurs in a trail
Occurrences(trail, op) == Cardinality({ i \in 1..Len(trail) : trail[i] = op })

\* C24: a resume that fails on a memory access reports the index k of the
\* first breakpoint whose word cannot be written; the k breakpoints before
\* it were written and hold the trap byte, the later ones were not written
\* (a later address that is not also an earlier one, and is not the one just
\* stepped over, holds what it held), and the child was not continued.
C24_FailedInstallStopsAtIndex ==
    [][ ( /\ nResumes' # nResumes
          /\ lastCont'.out = "Err"
          /\ lastCont'.errno = "mem" ) =>
          LET k    == lastCont'.index
              base == IF lastSpawn'.called THEN FreshProcess ELSE proc
              stepped == IF lastSpawn'.called \/ ~IsSome(inferior) THEN None
                         ELSE Unwrap(inferior).stopped
          IN  /\ k < Len(breakpoints)
              /\ ~CanFetch(base, breakpoints[k + 1])
              /\ \A i \in 1..k : CanFetch(base, breakpoints[i])
              /\ Occurrences(lastCont'.trail, "install") = k
              /\ Occurrences(lastCont'.trail, "cont") = 0
              /\ proc'.st = "stopped"
              /\ \A i \in 1..k : FetchByte(proc', breakpoints[i]) = TrapByte
              /\ \A i \in (k + 2)..Len(breakpoints) :
                     ( /\ CanFetch(base, breakpoints[i])
                       /\ \A j \in 1..k : breakpoints[j] # breakpoints[i]
                       /\ stepped # Some(breakpoints[i]) ) =>
                         FetchByte(proc', breakpoints[i])
                             = FetchByte(base, breakpoints[i])
      ]_vars

\* the second breakpoint could not be inserted, the first stays patched
C24_SecondInsertFailed ==
    /\ breakpoints = << FooAddr, BadAddr >>
    /\ lastCont.out = "Err"
    /\ lastCont.errno = "mem"
    /\ lastCont.index = 1
    /\ FetchByte(proc, FooAddr) = TrapByte

\* the pending step-over marker of the child the session holds
Marker == IF IsSome(inferior) THEN Unwrap(inferior).stopped ELSE None

\* the child holds a marker and is stopped, or holds none
MarkedChildIsStopped == IsSome(Marker) => proc.st = "stopped"

\* a stopped child with marker A is at A and A is registered; a child
\* stopped anywhere else has no marker
MarkerIsWhereStopped ==
    ( IsSome(inferior) /\ proc.st = "stopped" ) =>
        /\ IsSome(Marker) =>
               /\ proc.rip = Unwrap(Marker)
               /\ Unwrap(Marker) \in Registered
        /\ Marker # Some(proc.rip) => ~IsSome(Marker)

\* C25 as stated: between two commands a pending step-over marker A means
\* that the child is stopped with its instruction pointer at A and A is
\* registered, and a child stopped anywhere else has no marker.
C25_MarkerMeansStoppedOnBreakpoint ==
    MarkedChildIsStopped /\ MarkerIsWhereStopped

\* C25, amended: the same for every child that is still stopped.  A marked
\* child stops being stopped only when it is killed from outside between
\* two commands (the session still holds it, with its marker), and while a
\* child keeps its marker without being resumed it executes nothing.
C25_MarkerMeansStoppedUnlessKilled ==
    /\ MarkerIsWhereStopped
    /\ [][ /\ MarkerIsWhereStopped'
           /\ ( MarkedChildIsStopped /\ ~MarkedChildIsStopped' ) =>
                  /\ proc' = Deliver(proc, "SIGKILL")
                  /\ UNCHANGED << inferior, nResumes, lastCont, sess >>
           /\ ( IsSome(Marker) /\ inferior' = inferior
                /\ nResumes' = nResumes ) =>
                  Executed(proc') = Executed(proc)
       ]_vars

\* the child waits on main's breakpoint while another one is registered
C25_MarkedAtMain ==
    /\ Marker = Some(MainAddr + 2)
    /\ proc.st = "stopped"
    /\ proc.rip = MainAddr + 2
    /\ lastCont.out = "Ok"
    /\ breakpoints = << MainAddr + 2, BarAddr + 1 >>
    /\ proc.execs[MainAddr + 2] = 0

\* C26: with at least one worker, under every interleaving, the vector
\* returned is as long as the input and holds f of the input element at
\* every index, and every input element was processed by one worker, once;
\* at no time has an element been processed twice.
C26_ReturnsFOfEachElement ==
    /\ \A i \in DOMAIN processed : Len(processed[i]) <= 1
    /\ ( pmPc = "done" /\ num_threads >= 1 ) =>
           /\ IsSome(pmRet)
           /\ Len(Unwrap(pmRet)) = Len(input)
           /\ \A i \in 1..Len(input) : Unwrap(pmRet)[i] = f(input[i])
           /\ \A i \in 1..Len(input) :
                  /\ Len(processed[i]) = 1
                  /\ processed[i][1] \in 1..num_threads

\* two workers shared the elements of a vector of different values
C26_TwoWorkersShared ==
    /\ pmPc = "done"
    /\ input = << 2, 3 >>
    /\ pmRet = Some(<< 4, 9 >>)
    /\ processed[1] # processed[2]

\* the call has returned: every worker spawned has exited and is joined
PmReturned ==
    /\ pmPc = "done"
    /\ IsSome(pmRet)
    /\ Len(threads) = num_threads
    /\ joined = num_threads
    /\ \A t \in 1..num_threads : workers[t].pc = "exited"

\* C27: for every input and every number of workers from 0 on the call
\* returns, under every fair schedule.  Until then a worker exits only when
\* the input channel is closed and empty, the collecting loop ends only
\* when the output channel is empty and every sender of it is dropped, and
\* the call returns only with every worker joined.
C27_Terminates ==
    /\ <>[]PmReturned
    /\ [][ /\ \A t \in WorkerIds :
                ( workers[t].pc # "exited" /\ workers'[t].pc = "exited" ) =>
                    ( inSenders = {} /\ inChan = << >> )
           /\ ( pmPc = "collect" /\ pmPc' # "collect" ) =>
                    ( pmPc' = "join" /\ outChan = << >> /\ outSenders = {}
                      /\ \A t \in 1..num_threads : workers[t].pc = "exited" )
           /\ ( pmPc # "done" /\ pmPc' = "done" ) =>
                    ( joined = num_threads
                      /\ \A t \in 1..num_threads : workers'[t].pc = "exited" )
       ]_vars

\* without workers the call returns the vector of defaults
C27_ReturnedWithoutWorkers ==
    /\ PmReturned
    /\ num_threads = 0
    /\ Len(input) = MaxInput
    /\ inChan # << >>

\* C28: a handler attempts only an upstream whose flag was false when it
\* was selected; a failed attempt is followed by setting that flag and by a
\* new selection; the call returns ConnectionRefused, answered 502, exactly
\* when the selection finds every flag set; and since the health check last
\* wrote a flag the call has failed at most once on each upstream.
C28_ConnectSkipsDeadUpstreams ==
    [][ \A h \in HandlerIds :
          LET now  == handlers[h]
              next == handlers'[h]
          IN  /\ ( now.pc = "select" /\ next.pc = "attempt" ) =>
                     /\ next.random_idx \in Upstreams
                     /\ ~upstream_dead[next.random_idx]
              /\ ( now.pc = "select" /\ next.pc # "select" ) =>
                     ( next.pc = "refused"
                         <=> \A u \in Upstreams : upstream_dead[u] )
              /\ ( now.pc = "attempt" /\ next.pc # "attempt" ) =>
                     /\ next.random_idx = now.random_idx
                     /\ next.pc = IF upstreamSt[now.random_idx] = "down"
                                  THEN "mark" ELSE "connected"
                     /\ next.pc = "mark" => now.random_idx \notin now.failed
              /\ ( now.pc = "mark" /\ next.pc # "mark" ) =>
                     /\ upstream_dead'[now.random_idx]
                     /\ next.pc = "select"
              /\ next.pc = "refused" => \/ now.pc = "refused"
                                        \/ now.pc = "select"
      ]_vars

\* the call failed once on each upstream and was answered 502
C28_RefusedAfterEachFailedOnce ==
    \E h \in HandlerIds :
        /\ handlers[h].pc = "refused"
        /\ handlers[h].failed = Upstreams
        /\ \A u \in Upstreams : upstream_dead[u]

\* C29: the flag of an upstream checked at least once is set exactly when
\* the upstream did not answer 200 at its most recent check (it refused the
\* connection or failed the request), unless a handler has set the flag
\* since; an upstream a handler had flagged is selected again after it
\* passed.
C29_FlagIsLastCheckOutcome ==
    \A u \in Upstreams :
        /\ lastCheck[u] = "passed" => ~upstream_dead[u]
        /\ lastCheck[u] = "failed" => upstream_dead[u]
        /\ ( hc.pc = "write" /\ hc.index = u ) =>
               ( IsSome(hc.outcome) <=> hc.seen = "up" )

\* a handler is connected to an upstream that a handler had flagged and
\* that passed its check since, while the other upstream failed its own
C29_RevivedUpstreamSelected ==
    \E h \in HandlerIds :
        /\ handlers[h].pc = "connected"
        /\ wasMarked[handlers[h].random_idx]
        /\ lastCheck[handlers[h].random_idx] = "passed"
        /\ \E u \in Upstreams : lastCheck[u] = "failed" /\ upstreamSt[u] = "sick"

====
